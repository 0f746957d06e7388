--------------------------- MODULE StatctlProofs ---------------------------
(***************************************************************************)
(* For every number of clients, rollouts, manifests and command lines: the *)
(* commands of statctl act on the rollout their line means, share it with  *)
(* each other and with the controller as if each were one atomic step, and *)
(* tell the truth with their exit status.                                  *)
(***************************************************************************)
EXTENDS Statctl, Integers, SequenceTheorems, TLAPS

-----------------------------------------------------------------------------
(* The folds over a command line. *)

J == INSTANCE FoldTheorems WITH op <- Followed
S == INSTANCE FoldTheorems WITH op <- SplitToken
P == INSTANCE FoldTheorems WITH op <- ParseToken

\* Elements of os.Args that occur.
TokenType == [flag : DOMAIN Field \cup {None}, value : Words \cup {None}]

\* What splitArgs starts with.
NoArgs == [flags |-> <<>>, positional |-> <<>>, takes |-> FALSE]

\* Joining the tokens of the items.
LEMMA TokensIsFold == \A items : Tokens(items) = J!Fold(<<>>, items)
BY DEF Tokens, J!Fold, FoldLeft, J!FoldLeft, MapThenFoldSet, J!MapThenFoldSet,
       Max, J!Max

\* The loop of splitArgs.
LEMMA SplitIsFold == \A tokens : SplitArgs(tokens) = S!Fold(NoArgs, tokens)
BY DEF SplitArgs, NoArgs, S!Fold, FoldLeft, S!FoldLeft, MapThenFoldSet,
       S!MapThenFoldSet, Max, S!Max

\* The loop of fs.Parse.
LEMMA ParseIsFold ==
  \A cmd, tokens : ParseFlags(cmd, tokens) = P!Fold(FlagSet(cmd), tokens)
BY DEF ParseFlags, P!Fold, FoldLeft, P!FoldLeft, MapThenFoldSet,
       P!MapThenFoldSet, Max, P!Max

-----------------------------------------------------------------------------
(* Appending to a line. *)

\* One more item adds its tokens.
LEMMA TokensMore ==
  /\ Tokens(<<>>) = <<>>
  /\ \A items \in Seq(Item), item \in Item :
       Tokens(Append(items, item)) = Tokens(items) \o TokensOf(item)
<1>1. Tokens(<<>>) = <<>>
  BY TokensIsFold, J!FoldEmpty
<1>2. ASSUME NEW items \in Seq(Item), NEW item \in Item
      PROVE  Tokens(Append(items, item)) = Tokens(items) \o TokensOf(item)
  <2>1. J!Fold(<<>>, Append(items, item)) = Followed(J!Fold(<<>>, items), item)
    BY J!FoldAppend
  <2> QED BY <2>1, TokensIsFold DEF Followed
<1> QED BY <1>1, <1>2

\* One more token is one more round of splitArgs' loop.
LEMMA SplitMore ==
  /\ SplitArgs(<<>>) = NoArgs
  /\ \A tokens \in Seq(TokenType), token \in TokenType :
       SplitArgs(Append(tokens, token)) = SplitToken(SplitArgs(tokens), token)
<1>1. SplitArgs(<<>>) = NoArgs
  BY SplitIsFold, S!FoldEmpty
<1>2. ASSUME NEW tokens \in Seq(TokenType), NEW token \in TokenType
      PROVE  SplitArgs(Append(tokens, token)) = SplitToken(SplitArgs(tokens), token)
  <2>1. S!Fold(NoArgs, Append(tokens, token)) = SplitToken(S!Fold(NoArgs, tokens), token)
    BY S!FoldAppend
  <2> QED BY <2>1, SplitIsFold
<1> QED BY <1>1, <1>2

\* One more flag token is one more step of fs.Parse.
LEMMA ParseMore ==
  ASSUME NEW cmd
  PROVE  /\ ParseFlags(cmd, <<>>) = FlagSet(cmd)
         /\ \A tokens \in Seq(TokenType), token \in TokenType :
              ParseFlags(cmd, Append(tokens, token))
                     = ParseToken(ParseFlags(cmd, tokens), token)
<1>1. ParseFlags(cmd, <<>>) = FlagSet(cmd)
  BY ParseIsFold, P!FoldEmpty
<1>2. ASSUME NEW tokens \in Seq(TokenType), NEW token \in TokenType
      PROVE  ParseFlags(cmd, Append(tokens, token))
                     = ParseToken(ParseFlags(cmd, tokens), token)
  <2>1. P!Fold(FlagSet(cmd), Append(tokens, token))
          = ParseToken(P!Fold(FlagSet(cmd), tokens), token)
    BY P!FoldAppend
  <2> QED BY <2>1, ParseIsFold
<1> QED BY <1>1, <1>2

\* The tokens of an item, and their types.
LEMMA ItemTokens ==
  ASSUME NEW item \in Item
  PROVE  /\ item.value \in Words /\ item.value # None
         /\ item.flag \in DOMAIN Field \cup {None}
         /\ \/ /\ TokensOf(item) = <<Token(item.flag, item.value)>>
            \/ /\ item.flag # None
               /\ TokensOf(item) = <<Token(item.flag, None), Token(None, item.value)>>
         /\ Token(item.flag, item.value) \in TokenType
         /\ Token(item.flag, None) \in TokenType
         /\ Token(None, item.value) \in TokenType
<1>1. /\ item.value \in Words
      /\ item.flag \in DOMAIN Field \cup {None}
  <2>1. CASE \E w \in Words : item = Name(w)
    BY <2>1 DEF Name
  <2>2. CASE \E flag \in DOMAIN Field, w \in Words : item = Set(flag, w)
    BY <2>2 DEF Set
  <2>3. CASE \E flag \in DOMAIN Field, w \in Words : item = Give(flag, w)
    BY <2>3 DEF Give
  <2> QED BY <2>1, <2>2, <2>3 DEF Item
<1>2. item.value # None
  BY <1>1, LineAssumption
<1> QED BY <1>1, <1>2 DEF TokensOf, Token, TokenType

\* An item adds one token or two.
LEMMA AppendTwo ==
  ASSUME NEW T, NEW s \in Seq(T), NEW x \in T, NEW y \in T
  PROVE  /\ s \o <<x>> = Append(s, x)
         /\ s \o <<x, y>> = Append(Append(s, x), y)
         /\ s \o <<x>> \in Seq(T) /\ s \o <<x, y>> \in Seq(T)
OBVIOUS

-----------------------------------------------------------------------------
(* splitArgs, item by item. *)

\* What splitArgs holds.
SplitType ==
  [flags : Seq(TokenType), positional : Seq(Words \cup {None}), takes : BOOLEAN]

\* What splitArgs does with a token, field by field.
LEMMA SplitTokenIs ==
  ASSUME NEW acc \in SplitType, NEW token \in TokenType
  PROVE  /\ SplitToken(acc, token) \in SplitType
         /\ token.flag # None \/ acc.takes =>
              /\ SplitToken(acc, token).flags = Append(acc.flags, token)
              /\ SplitToken(acc, token).positional = acc.positional
              /\ SplitToken(acc, token).takes = TakesNext(token)
         /\ token.flag = None /\ ~acc.takes =>
              /\ SplitToken(acc, token).flags = acc.flags
              /\ SplitToken(acc, token).positional
                   = Append(acc.positional, token.value)
              /\ SplitToken(acc, token).takes = acc.takes
<1>1. /\ acc.flags \in Seq(TokenType) /\ acc.positional \in Seq(Words \cup {None})
      /\ acc.takes \in BOOLEAN /\ token.value \in Words \cup {None}
  BY DEF SplitType, TokenType
<1>2. TakesNext(token) \in BOOLEAN
  BY DEF TakesNext
<1>3. Append(acc.flags, token) \in Seq(TokenType)
      /\ Append(acc.positional, token.value) \in Seq(Words \cup {None})
  BY <1>1
<1>4. CASE token.flag # None \/ acc.takes
  <2>1. SplitToken(acc, token)
          = [acc EXCEPT !.flags = Append(acc.flags, token), !.takes = TakesNext(token)]
    BY <1>4 DEF SplitToken
  <2> QED BY <1>1, <1>2, <1>3, <1>4, <2>1 DEF SplitType
<1>5. CASE ~ (token.flag # None \/ acc.takes)
  <2>1. SplitToken(acc, token)
          = [acc EXCEPT !.positional = Append(acc.positional, token.value)]
    BY <1>5 DEF SplitToken
  <2> QED BY <1>1, <1>3, <1>5, <2>1 DEF SplitType
<1> QED BY <1>4, <1>5

\* Between two items splitArgs waits for no value: a name goes to the names, a
\* flag with its value to the flags.
LEMMA SplitItem ==
  ASSUME NEW tokens \in Seq(TokenType), SplitArgs(tokens) \in SplitType,
         ~SplitArgs(tokens).takes, NEW item \in Item
  PROVE  LET old == SplitArgs(tokens)
             new == SplitArgs(tokens \o TokensOf(item)) IN
         /\ new \in SplitType /\ ~new.takes
         /\ item.flag = None =>
              /\ new.flags = old.flags
              /\ new.positional = Append(old.positional, item.value)
         /\ item.flag # None =>
              /\ new.flags = old.flags \o TokensOf(item)
              /\ new.positional = old.positional
<1> DEFINE old == SplitArgs(tokens)
           new == SplitArgs(tokens \o TokensOf(item))
           tv == Token(item.flag, item.value)
           t1 == Token(item.flag, None)
           t2 == Token(None, item.value)
<1>0. tv \in TokenType /\ t1 \in TokenType /\ t2 \in TokenType
      /\ old.flags \in Seq(TokenType)
  BY ItemTokens DEF SplitType
<1>1. CASE item.flag = None
  <2>1. TokensOf(item) = <<tv>>
    BY <1>1, ItemTokens
  <2>2. new = SplitToken(old, tv)
    <3>1. tokens \o TokensOf(item) = Append(tokens, tv)
      BY <2>1, <1>0, AppendTwo
    <3> QED BY <3>1, <1>0, SplitMore
  <2>3. tv.flag = None /\ tv.value = item.value
    BY <1>1 DEF Token
  <2> HIDE DEF new, old, tv
  <2>4. /\ new \in SplitType /\ new.flags = old.flags /\ new.takes = old.takes
        /\ new.positional = Append(old.positional, item.value)
    BY <1>0, <1>1, <2>2, <2>3, SplitTokenIs DEF old
  <2> QED BY <1>1, <2>4 DEF old, new
<1>2. CASE item.flag # None /\ TokensOf(item) = <<tv>>
  <2>2. new = SplitToken(old, tv)
    <3>1. tokens \o TokensOf(item) = Append(tokens, tv)
      BY <1>2, <1>0, AppendTwo
    <3> QED BY <3>1, <1>0, SplitMore
  <2>3. tv.flag = item.flag /\ tv.value # None
    BY <1>2, ItemTokens DEF Token
  <2>4. ~TakesNext(tv)
    BY <2>3 DEF TakesNext
  <2>5. old.flags \o TokensOf(item) = Append(old.flags, tv)
    BY <1>2, <1>0, AppendTwo
  <2> HIDE DEF new, old, tv
  <2>6. /\ new \in SplitType /\ new.flags = Append(old.flags, tv)
        /\ new.positional = old.positional /\ new.takes = TakesNext(tv)
    BY <1>0, <1>2, <2>2, <2>3, SplitTokenIs DEF old
  <2> QED BY <2>4, <2>5, <2>6, <1>2 DEF old, new
<1>3. CASE item.flag # None /\ TokensOf(item) = <<t1, t2>>
  <2> DEFINE mid == SplitToken(old, t1)
  <2>1. new = SplitToken(mid, t2)
    <3>1. /\ tokens \o TokensOf(item) = Append(Append(tokens, t1), t2)
          /\ Append(tokens, t1) \in Seq(TokenType)
      BY <1>3, <1>0, AppendTwo
    <3> QED BY <3>1, <1>0, SplitMore
  <2>2. /\ t1.flag = item.flag /\ t1.value = None /\ t2.flag = None
        /\ t2.value = item.value
    BY DEF Token
  <2>3. TakesNext(t1) /\ ~TakesNext(t2)
    BY <2>2, <1>3 DEF TakesNext
  <2>5. old.flags \o TokensOf(item) = Append(Append(old.flags, t1), t2)
    BY <1>3, <1>0, AppendTwo
  <2> HIDE DEF new, old, t1, t2
  <2>6. /\ mid \in SplitType /\ mid.flags = Append(old.flags, t1)
        /\ mid.positional = old.positional /\ mid.takes = TakesNext(t1)
    BY <1>0, <1>3, <2>2, SplitTokenIs DEF old
  <2> HIDE DEF mid
  <2>7. /\ new \in SplitType /\ new.flags = Append(mid.flags, t2)
        /\ new.positional = mid.positional /\ new.takes = TakesNext(t2)
    BY <1>0, <2>1, <2>3, <2>6, SplitTokenIs
  <2> QED BY <2>3, <2>5, <2>6, <2>7, <1>3 DEF old, new
<1> QED BY <1>1, <1>2, <1>3, ItemTokens

-----------------------------------------------------------------------------
(* fs.Parse, item by item. *)

\* What a field may hold.
Values == Words \cup {None, "default"}

\* What a flag set holds.
FsType == [flags : SUBSET DOMAIN Field, fields : [DOMAIN Defaults -> Values],
           wants : DOMAIN Field \cup {None}, at : {"flags", "end", "error"}]

\* Every flag is registered for a field.
LEMMA FieldType == \A flag \in DOMAIN Field : Field[flag] \in DOMAIN Defaults
BY DEF Field, Defaults

\* A flag gets its value, and only --interval refuses one.
LEMMA AssignedIs ==
  ASSUME NEW fs \in FsType, fs.at = "flags", NEW flag \in DOMAIN Field,
         NEW word \in Words
  PROVE  LET new == Assigned(fs, flag, word) IN
         /\ new \in FsType /\ new.flags = fs.flags /\ new.wants = None
         /\ new.fields = [fs.fields EXCEPT ![Field[flag]] = word]
         /\ new.at = IF flag = "interval" /\ word \notin Numbers THEN "error"
                     ELSE "flags"
<1> DEFINE more == [fs.fields EXCEPT ![Field[flag]] = word]
           at == IF flag = "interval" /\ word \notin Numbers THEN "error"
                 ELSE "flags"
           new == Assigned(fs, flag, word)
<1>1. more \in [DOMAIN Defaults -> Values] /\ at \in {"flags", "end", "error"}
  <2>1. fs.fields \in [DOMAIN Defaults -> Values] /\ word \in Values
    BY DEF FsType, Values
  <2> QED BY <2>1, FieldType
<1>2. new = [fs EXCEPT !.fields = more, !.at = at, !.wants = None]
  BY DEF Assigned
<1> HIDE DEF more, at, new
<1>3. /\ new \in FsType /\ new.flags = fs.flags /\ new.wants = None
      /\ new.fields = more /\ new.at = at
  BY <1>1, <1>2 DEF FsType
<1> QED BY <1>3 DEF new, more, at

\* What fs.Parse does with a token, field by field.
LEMMA ParseTokenIs ==
  ASSUME NEW fs \in FsType, NEW token
  PROVE  LET new == ParseToken(fs, token) IN
         /\ fs.at # "flags" => new = fs
         /\ fs.at = "flags" /\ fs.wants # None =>
              new = Assigned(fs, fs.wants, token.value)
         /\ fs.at = "flags" /\ fs.wants = None /\ token.flag # None =>
              /\ token.flag \notin fs.flags =>
                   /\ new \in FsType /\ new.flags = fs.flags
                   /\ new.at = "error"
              /\ token.flag \in fs.flags /\ token.value # None =>
                   new = Assigned(fs, token.flag, token.value)
              /\ token.flag \in fs.flags /\ token.value = None =>
                   /\ new \in FsType /\ new.flags = fs.flags
                   /\ new.at = "flags" /\ new.wants = token.flag
                   /\ new.fields = fs.fields
<1> DEFINE new == ParseToken(fs, token)
<1>1. CASE fs.at # "flags"
  BY <1>1 DEF ParseToken
<1>2. CASE fs.at = "flags" /\ fs.wants # None
  BY <1>2 DEF ParseToken
<1>3. CASE fs.at = "flags" /\ fs.wants = None /\ token.flag # None
  <2>1. CASE token.flag \notin fs.flags
    <3>1. new = [fs EXCEPT !.at = "error"]
      BY <1>3, <2>1 DEF ParseToken
    <3>2. new \in FsType /\ new.flags = fs.flags /\ new.at = "error"
      <4> HIDE DEF new
      <4> QED BY <3>1 DEF FsType
    <3> QED BY <3>2, <1>3, <2>1
  <2>2. CASE token.flag \in fs.flags /\ token.value # None
    <3>1. new = Assigned(fs, token.flag, token.value)
      BY <1>3, <2>2 DEF ParseToken
    <3> QED BY <3>1, <1>3, <2>2
  <2>3. CASE token.flag \in fs.flags /\ token.value = None
    <3>1. new = [fs EXCEPT !.wants = token.flag]
      BY <1>3, <2>3 DEF ParseToken
    <3>2. token.flag \in DOMAIN Field
      BY <2>3 DEF FsType
    <3>3. /\ new \in FsType /\ new.flags = fs.flags /\ new.at = fs.at
          /\ new.wants = token.flag /\ new.fields = fs.fields
      <4> HIDE DEF new
      <4> QED BY <3>1, <3>2 DEF FsType
    <3> QED BY <3>3, <1>3, <2>3
  <2> QED BY <2>1, <2>2, <2>3
<1>4. CASE fs.at = "flags" /\ fs.wants = None /\ token.flag = None
  BY <1>4
<1> QED BY <1>1, <1>2, <1>3, <1>4

\* A flag item that is allowed sets its field, whether it is joined by "=" or
\* not; one that is not allowed is an error for good.
LEMMA ParseItem ==
  ASSUME NEW cmd, NEW tokens \in Seq(TokenType),
         ParseFlags(cmd, tokens) \in FsType,
         ParseFlags(cmd, tokens).flags = Flags(cmd),
         NEW item \in Item, item.flag # None
  PROVE  LET old == ParseFlags(cmd, tokens)
             new == ParseFlags(cmd, tokens \o TokensOf(item)) IN
         /\ old.at = "error" => new = old
         /\ old.at = "flags" /\ old.wants = None =>
              /\ new \in FsType /\ new.flags = Flags(cmd)
              /\ ~Allowed(cmd, item) => new.at = "error"
              /\ Allowed(cmd, item) =>
                   /\ new.at = "flags" /\ new.wants = None
                   /\ new.fields
                        = [old.fields EXCEPT ![Field[item.flag]] = item.value]
<1> DEFINE old == ParseFlags(cmd, tokens)
           new == ParseFlags(cmd, tokens \o TokensOf(item))
           tv == Token(item.flag, item.value)
           t1 == Token(item.flag, None)
           t2 == Token(None, item.value)
           mid == ParseToken(old, t1)
           set == Assigned(old, item.flag, item.value)
           good == item.flag = "interval" => item.value \in Numbers
<1>0. /\ tv \in TokenType /\ t1 \in TokenType /\ t2 \in TokenType
      /\ item.value \in Words /\ item.value # None /\ item.flag \in DOMAIN Field
  BY ItemTokens
<1>1. Allowed(cmd, item) <=> item.flag \in Flags(cmd) /\ good
  BY DEF Allowed
<1>2. \/ TokensOf(item) = <<tv>> /\ new = ParseToken(old, tv)
      \/ TokensOf(item) = <<t1, t2>> /\ new = ParseToken(mid, t2)
  <2>1. CASE TokensOf(item) = <<tv>>
    <3>1. tokens \o TokensOf(item) = Append(tokens, tv)
      BY <2>1, <1>0, AppendTwo
    <3> QED BY <2>1, <3>1, <1>0, ParseMore
  <2>2. CASE TokensOf(item) = <<t1, t2>>
    <3>1. /\ tokens \o TokensOf(item) = Append(Append(tokens, t1), t2)
          /\ Append(tokens, t1) \in Seq(TokenType)
      BY <2>2, <1>0, AppendTwo
    <3> QED BY <2>2, <3>1, <1>0, ParseMore
  <2> QED BY <2>1, <2>2, ItemTokens
<1>3. /\ tv.flag = item.flag /\ tv.value = item.value /\ t1.flag = item.flag
      /\ t1.value = None /\ t2.flag = None /\ t2.value = item.value
  BY DEF Token
<1>4. old \in FsType /\ old.flags = Flags(cmd)
  OBVIOUS
<1> HIDE DEF tv, t1, t2, old, new, mid
<1>5. CASE old.at = "error"
  <2>1. ParseToken(old, tv) = old /\ mid = old /\ ParseToken(mid, t2) = old
    BY <1>4, <1>5, ParseTokenIs DEF mid
  <2> QED BY <1>2, <1>5, <2>1 DEF old, new
<1>6. ASSUME old.at = "flags", old.wants = None
      PROVE  /\ new \in FsType /\ new.flags = Flags(cmd)
             /\ ~Allowed(cmd, item) => new.at = "error"
             /\ Allowed(cmd, item) =>
                  /\ new.at = "flags" /\ new.wants = None
                  /\ new.fields
                       = [old.fields EXCEPT ![Field[item.flag]] = item.value]
  <2>1. /\ set \in FsType /\ set.flags = old.flags /\ set.wants = None
        /\ set.fields = [old.fields EXCEPT ![Field[item.flag]] = item.value]
        /\ good => set.at = "flags"
        /\ ~good => set.at = "error"
    BY <1>0, <1>4, <1>6, AssignedIs
  <2> HIDE DEF set, good
  <2>2. CASE item.flag \in Flags(cmd) /\ new = set
    BY <1>1, <1>4, <2>1, <2>2
  <2>3. CASE item.flag \in Flags(cmd) /\ new = ParseToken(old, tv)
    <3>1. new = set
      BY <1>0, <1>3, <1>4, <1>6, <2>3, ParseTokenIs DEF set
    <3> QED BY <3>1, <2>2, <2>3
  <2>4. CASE item.flag \in Flags(cmd) /\ new = ParseToken(mid, t2)
    <3>1. /\ mid \in FsType /\ mid.flags = Flags(cmd) /\ mid.at = "flags"
          /\ mid.wants = item.flag /\ mid.fields = old.fields
      BY <1>3, <1>4, <1>6, <2>4, ParseTokenIs DEF mid
    <3> DEFINE put == Assigned(mid, item.flag, item.value)
    <3>2. new = put
      BY <1>3, <2>4, <3>1, ParseTokenIs
    <3>3. /\ put \in FsType /\ put.flags = mid.flags /\ put.wants = None
          /\ put.fields = [mid.fields EXCEPT ![Field[item.flag]] = item.value]
          /\ good => put.at = "flags"
          /\ ~good => put.at = "error"
      BY <1>0, <3>1, AssignedIs DEF good
    <3> HIDE DEF put
    <3> QED BY <1>1, <2>4, <3>1, <3>2, <3>3
  <2>5. CASE item.flag \notin Flags(cmd) /\ new = ParseToken(old, tv)
    <3>1. new \in FsType /\ new.flags = Flags(cmd) /\ new.at = "error"
      BY <1>3, <1>4, <1>6, <2>5, ParseTokenIs
    <3> QED BY <3>1, <1>1, <2>5
  <2>6. CASE item.flag \notin Flags(cmd) /\ new = ParseToken(mid, t2)
    <3>1. mid \in FsType /\ mid.flags = Flags(cmd) /\ mid.at = "error"
      BY <1>3, <1>4, <1>6, <2>6, ParseTokenIs DEF mid
    <3>2. new = mid
      BY <2>6, <3>1, ParseTokenIs
    <3> QED BY <3>1, <3>2, <1>1, <2>6
  <2> QED BY <1>2, <2>3, <2>4, <2>5, <2>6
<1> QED BY <1>5, <1>6 DEF old, new

-----------------------------------------------------------------------------
(* The meaning of a line, item by item. *)

\* A set of positions has a last and a first one.
LEMMA Extremes ==
  ASSUME NEW n \in Nat, NEW s \in SUBSET (1..n), s # {}
  PROVE  /\ Max(s) \in s
         /\ Min(s) \in s /\ \A y \in s : Min(s) <= y
<1> DEFINE Good == {k \in Nat : \A t \in SUBSET (1..k) : t # {} =>
                      /\ \E x \in t : \A y \in t : x >= y
                      /\ \E x \in t : \A y \in t : x <= y}
<1>1. 0 \in Good
  <2>1. \A t \in SUBSET (1..0) : t = {}
    OBVIOUS
  <2> QED BY <2>1
<1>2. ASSUME NEW k \in Nat, k \in Good
      PROVE  k + 1 \in Good
  <2>1. ASSUME NEW t \in SUBSET (1..k + 1), t # {}
        PROVE  /\ \E x \in t : \A y \in t : x >= y
               /\ \E x \in t : \A y \in t : x <= y
    <3> DEFINE low == t \ {k + 1}
    <3>1. low \in SUBSET (1..k) /\ \A y \in t : y \in low \/ y = k + 1
      OBVIOUS
    <3>2. \A y \in t : y \in Int /\ y <= k + 1
      OBVIOUS
    <3>3. CASE low = {}
      <4>1. t = {k + 1}
        BY <2>1, <3>3
      <4> QED BY <4>1
    <3>4. CASE low # {}
      <4>1. PICK top \in low, bottom \in low : \A y \in low : top >= y /\ bottom <= y
        BY <1>2, <3>1, <3>4
      <4>2. top \in t /\ bottom \in t /\ top <= k + 1 /\ bottom <= k + 1
        BY <3>2, <4>1
      <4>3. \A y \in t : bottom <= y
        BY <3>1, <4>1, <4>2
      <4>4. k + 1 \in t => \A y \in t : k + 1 >= y
        BY <3>2
      <4>5. k + 1 \notin t => \A y \in t : top >= y
        BY <3>1, <4>1
      <4> QED BY <4>2, <4>3, <4>4, <4>5
    <3> QED BY <3>3, <3>4
  <2> QED BY <2>1
<1>3. Nat \subseteq Good
  <2>1. \A k \in Nat : k \in Good => k + 1 \in Good
    BY <1>2
  <2> HIDE DEF Good
  <2> QED BY <1>1, <2>1, P!Induction
<1>4. n \in Good
  BY <1>3
<1> QED BY <1>4 DEF Max, Min

\* The bare command means the defaults.
LEMMA MeantEmpty ==
  ASSUME NEW cmd
  PROVE  LET meant == Meant(cmd, <<>>) IN
         meant.ok /\ meant.fields = Defaults /\ meant.name = None
<1>1. Names(<<>>) = {} /\ \A field : Given(<<>>, field) = {}
  BY DEF Names, Given
<1>2. Defaults = [field \in DOMAIN Defaults |-> Defaults[field]]
  BY DEF Defaults
<1> QED BY <1>1, <1>2 DEF Meant

\* What one more item adds to the meaning of a line.
LEMMA MeantMore ==
  ASSUME NEW cmd, NEW items \in Seq(Item), NEW item \in Item
  PROVE  LET old == Meant(cmd, items)
             new == Meant(cmd, Append(items, item)) IN
         /\ new.ok <=> old.ok /\ Allowed(cmd, item)
         /\ new.fields = IF item.flag = None THEN old.fields
                         ELSE [old.fields EXCEPT ![Field[item.flag]] = item.value]
         /\ new.name = IF Names(items) # {} THEN old.name
                       ELSE IF item.flag = None THEN item.value ELSE None
         /\ Names(Append(items, item)) = {}
              <=> Names(items) = {} /\ item.flag # None
<1> DEFINE n == Len(items)
           more == Append(items, item)
           old == Meant(cmd, items)
           new == Meant(cmd, more)
<1>1. /\ n \in Nat /\ DOMAIN items = 1..n /\ DOMAIN more = 1..n + 1
      /\ more[n + 1] = item /\ \A i \in 1..n : more[i] = items[i]
  OBVIOUS
<1>2. item.flag # None => Field[item.flag] \in DOMAIN Defaults
  BY ItemTokens, FieldType
<1> HIDE DEF n, more
<1>3. Names(items) \in SUBSET (1..n)
      /\ Names(more) = IF item.flag = None THEN Names(items) \cup {n + 1}
                       ELSE Names(items)
  BY <1>1 DEF Names
<1>4. ASSUME NEW field
      PROVE  /\ Given(items, field) \in SUBSET (1..n)
             /\ Given(more, field)
                  = IF item.flag # None /\ Field[item.flag] = field
                    THEN Given(items, field) \cup {n + 1} ELSE Given(items, field)
  BY <1>1 DEF Given
<1>5. new.ok <=> old.ok /\ Allowed(cmd, item)
  BY <1>1 DEF Meant
<1>6. ASSUME NEW field \in DOMAIN Defaults
      PROVE  new.fields[field]
               = IF item.flag # None /\ Field[item.flag] = field THEN item.value
                 ELSE old.fields[field]
  <2>1. /\ new.fields[field] = IF Given(more, field) = {} THEN Defaults[field]
                               ELSE more[Max(Given(more, field))].value
        /\ old.fields[field] = IF Given(items, field) = {} THEN Defaults[field]
                               ELSE items[Max(Given(items, field))].value
    BY DEF Meant
  <2>2. CASE item.flag # None /\ Field[item.flag] = field
    <3>1. Given(more, field) = Given(items, field) \cup {n + 1}
      BY <1>4, <2>2
    <3>2. Max(Given(more, field)) = n + 1
      <4>1. Given(more, field) \in SUBSET (1..n + 1) /\ n + 1 \in Given(more, field)
        BY <1>1, <1>4, <3>1
      <4> QED BY <1>1, <4>1, P!MaxTop DEF Max, P!Max
    <3>3. Given(more, field) # {}
      BY <3>1
    <3> QED BY <1>1, <2>1, <2>2, <3>2, <3>3
  <2>3. CASE ~ (item.flag # None /\ Field[item.flag] = field)
    <3>1. Given(more, field) = Given(items, field)
      BY <1>4, <2>3
    <3>2. Given(items, field) # {} => Max(Given(items, field)) \in 1..n
      BY <1>1, <1>4, Extremes
    <3> QED BY <1>1, <2>1, <2>3, <3>1, <3>2
  <2> QED BY <2>2, <2>3
<1>7. new.fields = IF item.flag = None THEN old.fields
                   ELSE [old.fields EXCEPT ![Field[item.flag]] = item.value]
  <2>1. /\ new.fields = [field \in DOMAIN Defaults |-> new.fields[field]]
        /\ old.fields = [field \in DOMAIN Defaults |-> old.fields[field]]
    BY DEF Meant
  <2> HIDE DEF new, old
  <2> QED BY <1>2, <1>6, <2>1
<1>8. new.name = IF Names(items) # {} THEN old.name
                 ELSE IF item.flag = None THEN item.value ELSE None
  <2>1. /\ new.name = IF Names(more) = {} THEN None
                      ELSE more[Min(Names(more))].value
        /\ old.name = IF Names(items) = {} THEN None
                      ELSE items[Min(Names(items))].value
    BY DEF Meant
  <2>2. CASE Names(items) = {}
    <3>1. item.flag = None => Min(Names(more)) = n + 1 /\ Names(more) # {}
      <4>1. SUFFICES ASSUME item.flag = None PROVE Min({n + 1}) = n + 1
        BY <1>3, <2>2
      <4> QED BY <1>1 DEF Min
    <3> QED BY <1>1, <1>3, <2>1, <2>2, <3>1
  <2>3. CASE Names(items) # {}
    <3>1. /\ Names(more) \in SUBSET (1..n + 1) /\ Names(more) # {}
          /\ \A i \in Names(more) : i \in Names(items) \/ i = n + 1
          /\ Names(items) \subseteq Names(more)
      BY <1>1, <1>3, <2>3
    <3>2. /\ Min(Names(items)) \in Names(items)
          /\ \A i \in Names(items) : Min(Names(items)) <= i
      BY <1>1, <1>3, <2>3, Extremes
    <3>3. /\ Min(Names(more)) \in Names(more)
          /\ \A i \in Names(more) : Min(Names(more)) <= i
      <4>1. n + 1 \in Nat
        BY <1>1
      <4> QED BY <3>1, <4>1, Extremes
    <3>4. Min(Names(more)) = Min(Names(items))
      <4> DEFINE low == Min(Names(items))
                 least == Min(Names(more))
      <4>1. /\ low \in 1..n /\ least \in 1..n + 1
            /\ least \in Names(items) \/ least = n + 1
            /\ least <= low
        BY <1>3, <3>1, <3>2, <3>3
      <4>2. least \in Names(items) => low <= least
        BY <3>2
      <4> HIDE DEF low, least
      <4>3. low = least
        BY <1>1, <4>1, <4>2
      <4> QED BY <4>3 DEF low, least
    <3>5. more[Min(Names(items))] = items[Min(Names(items))]
      BY <1>1, <1>3, <3>2
    <3> QED BY <2>1, <2>3, <3>1, <3>4, <3>5
  <2> QED BY <2>2, <2>3
<1>9. Names(more) = {} <=> Names(items) = {} /\ item.flag # None
  BY <1>3
<1> QED BY <1>5, <1>7, <1>8, <1>9 DEF new, old, more

-----------------------------------------------------------------------------
(* What the program has read of a line is what the line means. *)

\* After splitArgs no value is outstanding and the first name is the one meant;
\* after fs.Parse the line is refused if it should be, and else every field is
\* the one meant.
Understood(cmd, items) ==
  LET split == SplitArgs(Tokens(items))
      fs == ParseFlags(cmd, split.flags)
      meant == Meant(cmd, items) IN
  /\ Tokens(items) \in Seq(TokenType)
  /\ split \in SplitType /\ ~split.takes
  /\ split.positional = <<>> <=> Names(items) = {}
  /\ split.positional # <<>> => Head(split.positional) = meant.name
  /\ Names(items) = {} => meant.name = None
  /\ fs \in FsType /\ fs.flags = Flags(cmd)
  /\ meant.ok => /\ fs.at = "flags" /\ fs.wants = None
                 /\ fs.fields = meant.fields
  /\ ~meant.ok => fs.at = "error"

\* So is the bare command.
LEMMA UnderstoodEmpty == \A cmd : Understood(cmd, <<>>)
<1> TAKE cmd
<1>1. Tokens(<<>>) = <<>> /\ SplitArgs(<<>>) = NoArgs
      /\ ParseFlags(cmd, <<>>) = FlagSet(cmd)
  BY TokensMore, SplitMore, ParseMore
<1>2. NoArgs \in SplitType /\ NoArgs.flags = <<>> /\ NoArgs.positional = <<>>
      /\ ~NoArgs.takes
  BY DEF NoArgs, SplitType
<1>3. /\ FlagSet(cmd) \in FsType /\ FlagSet(cmd).flags = Flags(cmd)
      /\ FlagSet(cmd).at = "flags" /\ FlagSet(cmd).wants = None
      /\ FlagSet(cmd).fields = Defaults
  <2>1. Flags(cmd) \in SUBSET DOMAIN Field
    BY DEF Flags, Field
  <2>2. Defaults \in [DOMAIN Defaults -> Values]
    BY DEF Defaults, Values
  <2> HIDE DEF Defaults
  <2> QED BY <2>1, <2>2 DEF FlagSet, FsType
<1>4. Names(<<>>) = {} /\ <<>> \in Seq(TokenType)
  BY DEF Names
<1> QED BY <1>1, <1>2, <1>3, <1>4, MeantEmpty DEF Understood

\* And with every item that is added, wherever it stands.
LEMMA UnderstoodMore ==
  ASSUME NEW cmd, NEW items \in Seq(Item), Understood(cmd, items),
         NEW item \in Item
  PROVE  Understood(cmd, Append(items, item))
<1> DEFINE more == Append(items, item)
           old == SplitArgs(Tokens(items))
           new == SplitArgs(Tokens(more))
           fs == ParseFlags(cmd, old.flags)
           gs == ParseFlags(cmd, new.flags)
           said == Meant(cmd, items)
           meant == Meant(cmd, more)
<1>1. Tokens(more) = Tokens(items) \o TokensOf(item)
  BY TokensMore
<1>2. Tokens(more) \in Seq(TokenType)
  <2>1. Tokens(items) \in Seq(TokenType)
    BY DEF Understood
  <2> DEFINE t == Token(item.flag, item.value)
             u == Token(item.flag, None)
             v == Token(None, item.value)
             tokens == Tokens(items)
  <2>2. /\ t \in TokenType /\ u \in TokenType /\ v \in TokenType
        /\ TokensOf(item) = <<t>> \/ TokensOf(item) = <<u, v>>
    BY ItemTokens
  <2>3. tokens \in Seq(TokenType)
    BY <2>1
  <2> HIDE DEF t, u, v, tokens
  <2>4. tokens \o <<t>> \in Seq(TokenType) /\ tokens \o <<u, v>> \in Seq(TokenType)
    BY <2>2, <2>3, AppendTwo
  <2> QED BY <1>1, <2>2, <2>4 DEF tokens
<1>3. /\ new \in SplitType /\ ~new.takes
      /\ item.flag = None =>
           /\ new.flags = old.flags
           /\ new.positional = Append(old.positional, item.value)
      /\ item.flag # None =>
           /\ new.flags = old.flags \o TokensOf(item)
           /\ new.positional = old.positional
  BY <1>1, SplitItem DEF Understood
<1>4. /\ meant.ok <=> said.ok /\ Allowed(cmd, item)
      /\ meant.fields = IF item.flag = None THEN said.fields
                        ELSE [said.fields EXCEPT ![Field[item.flag]] = item.value]
      /\ meant.name = IF Names(items) # {} THEN said.name
                      ELSE IF item.flag = None THEN item.value ELSE None
      /\ Names(more) = {} <=> Names(items) = {} /\ item.flag # None
  BY MeantMore
<1>5. /\ old.flags \in Seq(TokenType) /\ fs \in FsType /\ fs.flags = Flags(cmd)
      /\ old.positional \in Seq(Words \cup {None})
      /\ old.positional = <<>> <=> Names(items) = {}
      /\ old.positional # <<>> => Head(old.positional) = said.name
      /\ Names(items) = {} => said.name = None
      /\ said.ok => /\ fs.at = "flags" /\ fs.wants = None
                    /\ fs.fields = said.fields
      /\ ~said.ok => fs.at = "error"
  BY DEF Understood, SplitType
<1>6. item.value \in Words \cup {None}
  BY ItemTokens
<1>7. ASSUME item.flag # None
      PROVE  /\ fs.at = "error" => gs = fs
             /\ fs.at = "flags" /\ fs.wants = None =>
                  /\ gs \in FsType /\ gs.flags = Flags(cmd)
                  /\ ~Allowed(cmd, item) => gs.at = "error"
                  /\ Allowed(cmd, item) =>
                       /\ gs.at = "flags" /\ gs.wants = None
                       /\ gs.fields
                            = [fs.fields EXCEPT ![Field[item.flag]] = item.value]
  <2>1. gs = ParseFlags(cmd, old.flags \o TokensOf(item))
    BY <1>3, <1>7
  <2> DEFINE tokens == old.flags
  <2>2. tokens \in Seq(TokenType) /\ ParseFlags(cmd, tokens) \in FsType
        /\ ParseFlags(cmd, tokens).flags = Flags(cmd)
    BY <1>5
  <2> HIDE DEF tokens
  <2>3. gs = ParseFlags(cmd, tokens \o TokensOf(item)) /\ fs = ParseFlags(cmd, tokens)
    BY <2>1 DEF tokens
  <2> HIDE DEF gs, fs
  <2> QED BY <1>7, <2>2, <2>3, ParseItem
<1>8. item.flag = None => gs = fs /\ Allowed(cmd, item)
  <2>1. item.flag = None => Allowed(cmd, item)
    BY LineAssumption DEF Allowed, Field
  <2> QED BY <1>3, <2>1
<1> HIDE DEF more, old, new, fs, gs, said, meant
<1>9. /\ new.positional = <<>> <=> Names(more) = {}
      /\ new.positional # <<>> => Head(new.positional) = meant.name
      /\ Names(more) = {} => meant.name = None
  <2>1. CASE item.flag # None
    BY <1>3, <1>4, <1>5, <2>1
  <2>2. CASE item.flag = None
    <3>1. new.positional # <<>>
          /\ Head(new.positional) = IF old.positional = <<>> THEN item.value
                                    ELSE Head(old.positional)
      <4>1. new.positional = Append(old.positional, item.value)
        BY <1>3, <2>2
      <4> DEFINE names == old.positional
      <4>2. names \in Seq(Words \cup {None}) /\ item.value \in Words \cup {None}
        BY <1>5, <1>6
      <4> HIDE DEF names
      <4>3. /\ Append(names, item.value) # <<>>
            /\ Head(Append(names, item.value))
                 = IF names = <<>> THEN item.value ELSE Head(names)
        <5> DEFINE w == item.value
        <5>1. names \in Seq(Words \cup {None}) /\ w \in Words \cup {None}
          BY <4>2
        <5> HIDE DEF w
        <5>2. /\ Append(names, w) # <<>>
              /\ Head(Append(names, w)) = Append(names, w)[1]
          BY <5>1
        <5>3. names = <<>> => Append(names, w)[1] = w
          OBVIOUS
        <5>4. names # <<>> => Append(names, w)[1] = names[1] /\ Head(names) = names[1]
          BY <5>1
        <5> QED BY <5>2, <5>3, <5>4 DEF w
      <4> QED BY <4>1, <4>3 DEF names
    <3> QED BY <1>4, <1>5, <2>2, <3>1
  <2> QED BY <2>1, <2>2
<1>10. /\ gs \in FsType /\ gs.flags = Flags(cmd)
       /\ meant.ok => gs.at = "flags" /\ gs.wants = None /\ gs.fields = meant.fields
       /\ ~meant.ok => gs.at = "error"
  <2>1. CASE item.flag # None
    BY <1>4, <1>5, <1>7, <2>1
  <2>2. CASE item.flag = None
    BY <1>4, <1>5, <1>8, <2>2
  <2> QED BY <2>1, <2>2
<1> QED BY <1>2, <1>3, <1>9, <1>10 DEF Understood, new, gs, meant, more

\* Hence every line, by induction over the number of its items.
LEMMA LinesAreUnderstood ==
  ASSUME NEW cmd, NEW items \in Seq(Item)
  PROVE  Understood(cmd, items)
<1> DEFINE Good == {n \in Nat : \A line \in Seq(Item) :
                      Len(line) = n => Understood(cmd, line)}
<1>1. 0 \in Good
  <2>1. \A line \in Seq(Item) : Len(line) = 0 => line = <<>>
    OBVIOUS
  <2> QED BY <2>1, UnderstoodEmpty
<1>2. ASSUME NEW n \in Nat, n \in Good
      PROVE  n + 1 \in Good
  <2>1. ASSUME NEW line \in Seq(Item), Len(line) = n + 1
        PROVE  Understood(cmd, line)
    <3> DEFINE front == SubSeq(line, 1, n)
    <3>1. /\ front \in Seq(Item) /\ Len(front) = n /\ line[n + 1] \in Item
          /\ line = Append(front, line[n + 1])
      BY <2>1
    <3>2. Understood(cmd, front)
      BY <1>2, <3>1
    <3> HIDE DEF front
    <3> QED BY <3>1, <3>2, UnderstoodMore
  <2> QED BY <2>1
<1>3. Nat \subseteq Good
  <2>1. \A n \in Nat : n \in Good => n + 1 \in Good
    BY <1>2
  <2> HIDE DEF Good
  <2> QED BY <1>1, <2>1, P!Induction
<1>4. Len(items) \in Good
  BY <1>3
<1> QED BY <1>4

\* Every command takes every line to name the rollout it means: the order of
\* flags and names, their forms and repetitions make no difference to splitArgs,
\* parse and what a command does with the result.
THEOREM SameTarget ==
  ASSUME NEW cmd, NEW items \in Seq(Item)
  PROVE  Target(cmd, Parse(cmd, Tokens(items))) = Target(cmd, Meant(cmd, items))
<1> DEFINE split == SplitArgs(Tokens(items))
           fs == ParseFlags(cmd, split.flags)
           parsed == Parse(cmd, Tokens(items))
           meant == Meant(cmd, items)
<1>1. /\ split.positional = <<>> <=> Names(items) = {}
      /\ split.positional # <<>> => Head(split.positional) = meant.name
      /\ Names(items) = {} => meant.name = None
      /\ meant.ok => /\ fs.at = "flags" /\ fs.wants = None
                     /\ fs.fields = meant.fields
      /\ ~meant.ok => fs.at = "error"
  BY LinesAreUnderstood DEF Understood
<1>2. /\ parsed.ok <=> fs.at # "error" /\ fs.wants = None
      /\ parsed.fields = fs.fields
      /\ parsed.name = IF split.positional = <<>> THEN None
                       ELSE Head(split.positional)
  BY DEF Parse
<1> HIDE DEF split, fs, parsed, meant
<1>3. (parsed.ok <=> meant.ok) /\ parsed.name = meant.name
  BY <1>1, <1>2
<1>4. CASE ~meant.ok
  <2>1. ~Usable(cmd, parsed) /\ ~Usable(cmd, meant)
    BY <1>3, <1>4 DEF Usable
  <2> QED BY <2>1 DEF Target, parsed, meant
<1>5. CASE meant.ok
  <2>1. parsed.fields = meant.fields
    BY <1>1, <1>2, <1>5
  <2>2. Usable(cmd, parsed) <=> Usable(cmd, meant)
    BY <1>3, <2>1 DEF Usable
  <2>3. Target(cmd, parsed) = Target(cmd, meant)
    BY <1>3, <2>1, <2>2 DEF Target, Key
  <2> QED BY <2>3 DEF parsed, meant
<1> QED BY <1>4, <1>5

-----------------------------------------------------------------------------
(* Types. *)

TargetKeys == {run.target.key : run \in Invocations} \cup {None}

MeantKeys == {run.meant.key : run \in Invocations} \cup {None}

Calls == {"idle", "list", "get", "create", "update", "delete", "watch"}

ClientType ==
  [pc : Calls, cmd : Commands, key : TargetKeys, meant : MeantKeys,
   spec : SpecType \cup {None}, stale : BOOLEAN, cancelled : BOOLEAN,
   exit : {"", "ok", "error"}]

\* What edit of the stored spec a command writes back.
IsEdit(cmd, old, new) ==
  /\ cmd = "pause" => new = [old EXCEPT !.paused = TRUE]
  /\ cmd = "resume" => new = [old EXCEPT !.paused = FALSE, !.abort = FALSE]
  /\ cmd = "abort" => new = [old EXCEPT !.abort = TRUE]

Writers == {"apply", "pause", "resume", "abort"}

\* A command that waits for its answer: apply carries a manifest; a copy that
\* would be accepted is the stored spec with the command's edit.
Sound(k) ==
  /\ k.pc \in {"get", "create", "update"} /\ k.cmd = "apply" =>
       k.spec \in Applied /\ k.key \in Keys
  /\ k.pc = "get" => k.cmd \in Writers \cup {"get"}
  /\ k.pc = "create" => k.cmd = "apply"
  /\ k.pc = "update" =>
       k.cmd \in Writers /\ k.key \in Keys /\ k.spec \in SpecType

\* With the store as it is.
Accepted(k, rollouts) ==
  k.pc = "update" /\ ~k.stale =>
    /\ rollouts[k.key] # Absent
    /\ IsEdit(k.cmd, rollouts[k.key].spec, k.spec)

ClientInv(rollouts) ==
  /\ rollouts \in [Keys -> Rollouts]
  /\ client \in [Clients -> ClientType]
  /\ \A c \in Clients : Sound(client[c]) /\ Accepted(client[c], rollouts)

Inv == ClientInv(store)

LEMMA StartedType ==
  /\ Started \in ClientType /\ Started.pc = "idle"
  /\ \A k : k.pc = "idle" => Sound(k) /\ \A rollouts : Accepted(k, rollouts)
BY DEF Started, ClientType, Calls, Commands, TargetKeys, MeantKeys, Sound,
       Accepted

\* A command that ended waits for nothing.
LEMMA EndedType ==
  ASSUME NEW c \in Clients, NEW failed \in BOOLEAN
  PROVE  Ended(c, failed) \in ClientType /\ Ended(c, failed).pc = "idle"
BY StartedType DEF Ended, ClientType

\* A step of one client: it becomes `new', and the others keep everything but
\* the validity of their copies.
LEMMA BecomesFields ==
  ASSUME client \in [Clients -> ClientType], NEW c \in Clients,
         NEW new \in ClientType, Becomes(c, new)
  PROVE  /\ client' \in [Clients -> ClientType] /\ client'[c] = new
         /\ \A d \in Clients \ {c} :
              /\ client'[d] \in ClientType
              /\ client'[d].pc = client[d].pc /\ client'[d].cmd = client[d].cmd
              /\ client'[d].key = client[d].key
              /\ client'[d].spec = client[d].spec
              /\ client'[d].meant = client[d].meant
              /\ client'[d].exit = client[d].exit
              /\ ~client'[d].stale =>
                   /\ ~client[d].stale
                   /\ client[d].pc = "update" =>
                        store'[client[d].key] = store[client[d].key]
<1>1. ASSUME NEW d \in Clients \ {c}
      PROVE  /\ client'[d] \in ClientType
             /\ client'[d].pc = client[d].pc /\ client'[d].cmd = client[d].cmd
             /\ client'[d].key = client[d].key
             /\ client'[d].spec = client[d].spec
             /\ client'[d].meant = client[d].meant
             /\ client'[d].exit = client[d].exit
             /\ ~client'[d].stale =>
                  /\ ~client[d].stale
                  /\ client[d].pc = "update" =>
                       store'[client[d].key] = store[client[d].key]
  <2> DEFINE stale == \/ client[d].stale
                      \/ /\ client[d].pc = "update"
                         /\ store'[client[d].key] # store[client[d].key]
  <2>1. client'[d] = [client[d] EXCEPT !.stale = stale]
    BY DEF Becomes
  <2>2. client[d] \in ClientType /\ stale \in BOOLEAN
    OBVIOUS
  <2>3. ~stale => /\ ~client[d].stale
                  /\ client[d].pc = "update" =>
                       store'[client[d].key] = store[client[d].key]
    OBVIOUS
  <2> HIDE DEF stale
  <2>4. /\ client'[d] \in ClientType
        /\ client'[d].pc = client[d].pc /\ client'[d].cmd = client[d].cmd
        /\ client'[d].key = client[d].key
        /\ client'[d].spec = client[d].spec
        /\ client'[d].meant = client[d].meant
        /\ client'[d].exit = client[d].exit
        /\ client'[d].stale = stale
    BY <2>1, <2>2 DEF ClientType
  <2> QED BY <2>3, <2>4
<1>2. client'[c] = new /\ client' = [d \in Clients |-> client'[d]]
  BY DEF Becomes
<1> QED BY <1>1, <1>2

\* Hence it is enough to look at the client that steps.
LEMMA BecomesInv ==
  ASSUME Inv, NEW c \in Clients, NEW new \in ClientType, Becomes(c, new),
         store' \in [Keys -> Rollouts],
         Sound(new), Accepted(new, store')
  PROVE  Inv'
<1>1. client \in [Clients -> ClientType]
  BY DEF Inv, ClientInv
<1>2. ASSUME NEW d \in Clients \ {c}
      PROVE  Sound(client'[d]) /\ Accepted(client'[d], store')
  <2>1. Sound(client[d]) /\ Accepted(client[d], store)
    BY DEF Inv, ClientInv
  <2>2. /\ client'[d].pc = client[d].pc /\ client'[d].cmd = client[d].cmd
        /\ client'[d].key = client[d].key
        /\ client'[d].spec = client[d].spec
        /\ ~client'[d].stale =>
             /\ ~client[d].stale
             /\ client[d].pc = "update" =>
                  store'[client[d].key] = store[client[d].key]
    BY <1>1, BecomesFields
  <2> QED BY <2>1, <2>2 DEF Sound, Accepted
<1>3. client' \in [Clients -> ClientType] /\ client'[c] = new
  BY <1>1, BecomesFields
<1> QED BY <1>2, <1>3 DEF Inv, ClientInv

-----------------------------------------------------------------------------
(* The invariant. *)

\* The line of an apply that goes on names a manifest and a rollout.
LEMMA InvocationType ==
  ASSUME NEW run \in Invocations
  PROVE  /\ run.cmd \in Commands
         /\ run.target.key \in TargetKeys /\ run.meant.key \in MeantKeys
         /\ run.target.spec \in SpecType \cup {None}
         /\ run.cmd = "apply" /\ run.target.key # None =>
              run.target.spec \in Applied /\ run.target.key \in Keys
<1>1. PICK cmd \in Commands, line \in Lines :
        run = [cmd |-> cmd, target |-> Target(cmd, Parse(cmd, Tokens(line))),
               meant |-> Target(cmd, Meant(cmd, line))]
  BY DEF Invocations
<1> DEFINE parsed == Parse(cmd, Tokens(line))
           target == Target(cmd, parsed)
<1>2. run.cmd = cmd /\ run.target = target
  BY <1>1
<1> HIDE DEF parsed
<1>3. /\ target.key = None => target.spec = None \/ target.spec \in Applied
      /\ target.key # None => IF cmd = "apply" THEN target.spec \in Applied
                              ELSE target.spec = None
  <2>1. CASE ~Usable(cmd, parsed)
    BY <2>1 DEF Target
  <2>2. CASE Usable(cmd, parsed) /\ cmd # "apply"
    BY <2>2 DEF Target
  <2>3. CASE Usable(cmd, parsed) /\ cmd = "apply"
    <3>1. Manifest(parsed.fields.file) # None
      BY <2>3 DEF Usable
    <3>2. Manifest(parsed.fields.file).spec \in Applied
      BY <3>1 DEF Manifest, Applied
    <3> QED BY <2>3, <3>2 DEF Target
  <2> QED BY <2>1, <2>2, <2>3
<1> HIDE DEF target
<1>4. target.spec \in SpecType \cup {None}
  BY <1>3, StatctlAssumption
<1> QED BY <1>1, <1>2, <1>3, <1>4, KeysAssumption DEF TargetKeys, MeantKeys

LEMMA InitInv == ASSUME Init PROVE Inv
<1>1. store \in [Keys -> Rollouts]
  BY StatctlAssumption DEF Init, Rollouts
<1>2. \A c \in Clients : client[c] = Started
  BY DEF Init
<1>3. client \in [Clients -> ClientType]
  BY StartedType DEF Init
<1> QED BY <1>1, <1>2, <1>3, StartedType DEF Inv, ClientInv

\* A client that runs nothing any more.
LEMMA EndedInv ==
  ASSUME Inv, NEW c \in Clients, NEW failed \in BOOLEAN,
         Becomes(c, Ended(c, failed)), store' \in [Keys -> Rollouts]
  PROVE  Inv'
BY EndedType, StartedType, BecomesInv

LEMMA RunInv ==
  ASSUME Inv, NEW c \in Clients, Run(c)
  PROVE  Inv'
<1>1. PICK run \in Invocations :
        Becomes(c,
         [Started EXCEPT
           !.cmd = run.cmd, !.key = run.target.key, !.meant = run.meant.key,
           !.spec = run.target.spec,
           !.pc = IF run.target.key = None THEN "idle" ELSE FirstCall(run.cmd),
           !.exit = IF run.target.key = None THEN "error" ELSE ""])
  BY DEF Run
<1> DEFINE pc == IF run.target.key = None THEN "idle" ELSE FirstCall(run.cmd)
           exit == IF run.target.key = None THEN "error" ELSE ""
           new == [Started EXCEPT
                    !.cmd = run.cmd, !.key = run.target.key,
                    !.meant = run.meant.key, !.spec = run.target.spec,
                    !.pc = pc, !.exit = exit]
<1>2. Becomes(c, new)
  BY <1>1
<1>3. /\ pc \in {"idle", "list", "delete", "watch", "get"}
      /\ pc = "get" => /\ run.target.key # None
                       /\ run.cmd \notin {"list", "delete", "watch"}
  BY InvocationType DEF FirstCall, Commands
<1>4. exit \in {"", "error"}
  OBVIOUS
<1> HIDE DEF pc, exit
<1>5. /\ new \in ClientType /\ new.pc = pc /\ new.cmd = run.cmd
      /\ new.key = run.target.key /\ new.spec = run.target.spec
  BY <1>3, <1>4, InvocationType, StartedType DEF ClientType, Calls
<1>6. Sound(new) /\ Accepted(new, store')
  BY <1>3, <1>5, InvocationType DEF Sound, Accepted, Commands, Writers
<1>7. store' \in [Keys -> Rollouts]
  BY DEF Run, Inv, ClientInv
<1> QED BY <1>2, <1>5, <1>6, <1>7, BecomesInv

\* The copy that GetFound edits is the stored rollout.
LEMMA GetFoundInv ==
  ASSUME Inv, NEW c \in Clients, GetFound(c)
  PROVE  Inv'
<1> DEFINE k == client[c]
           found == store[k.key]
           new == [k EXCEPT !.pc = "update", !.spec = Edited(c, found.spec),
                            !.stale = FALSE]
<1>1. k \in ClientType /\ Sound(k) /\ store \in [Keys -> Rollouts]
  BY DEF Inv, ClientInv
<1>2. /\ k.pc = "get" /\ k.key \in Keys /\ found # Absent
      /\ store' = store
      /\ Becomes(c, IF k.cmd = "get" THEN Ended(c, FALSE) ELSE new)
  BY DEF GetFound, Waits, Stored, At
<1>3. CASE k.cmd = "get"
  BY <1>1, <1>2, <1>3, EndedInv
<1>4. CASE k.cmd # "get"
  <2>1. k.cmd \in Writers
    BY <1>1, <1>2, <1>4 DEF Sound
  <2>2. found.spec \in SpecType
    BY <1>1, <1>2 DEF Rollouts
  <2>3. /\ Edited(c, found.spec) \in SpecType
        /\ IsEdit(k.cmd, found.spec, Edited(c, found.spec))
        /\ k.cmd = "apply" => Edited(c, found.spec) \in Applied
    <3>1. CASE k.cmd = "pause"
      BY <2>2, <3>1 DEF Edited, IsEdit, SpecType
    <3>2. CASE k.cmd = "resume"
      BY <2>2, <3>2 DEF Edited, IsEdit, SpecType
    <3>3. CASE k.cmd = "abort"
      BY <2>2, <3>3 DEF Edited, IsEdit, SpecType
    <3>4. CASE k.cmd = "apply"
      BY <1>1, <1>2, <3>4, StatctlAssumption DEF Edited, IsEdit, Sound
    <3> QED BY <2>1, <3>1, <3>2, <3>3, <3>4 DEF Writers
  <2> DEFINE spec == Edited(c, found.spec)
  <2>4. /\ new \in ClientType /\ new.pc = "update" /\ new.cmd = k.cmd
        /\ new.key = k.key /\ new.spec = spec
    <3>1. spec \in SpecType
      BY <2>3
    <3> HIDE DEF spec
    <3>2. new = [k EXCEPT !.pc = "update", !.spec = spec, !.stale = FALSE]
      BY DEF spec
    <3> QED BY <1>1, <3>1, <3>2 DEF ClientType, Calls
  <2>5. Sound(new)
    BY <1>2, <2>1, <2>3, <2>4 DEF Sound
  <2>6. Accepted(new, store')
    BY <1>2, <2>3, <2>4 DEF Accepted
  <2> HIDE DEF new
  <2> QED BY <1>1, <1>2, <1>4, <2>4, <2>5, <2>6, BecomesInv
<1> QED BY <1>3, <1>4

LEMMA GetAbsentInv ==
  ASSUME Inv, NEW c \in Clients, GetAbsent(c)
  PROVE  Inv'
<1> DEFINE k == client[c]
           new == [k EXCEPT !.pc = "create"]
<1>1. k \in ClientType /\ Sound(k) /\ store' \in [Keys -> Rollouts]
  BY DEF Inv, ClientInv, GetAbsent
<1>2. CASE k.cmd # "apply"
  BY <1>1, <1>2, EndedInv DEF GetAbsent
<1>3. CASE k.cmd = "apply"
  <2>1. Becomes(c, new) /\ k.pc = "get"
    BY <1>3 DEF GetAbsent, Waits
  <2>2. /\ new \in ClientType /\ new.pc = "create" /\ new.cmd = k.cmd
        /\ new.key = k.key /\ new.spec = k.spec
    BY <1>1 DEF ClientType, Calls
  <2>3. Sound(new) /\ Accepted(new, store')
    BY <1>1, <1>3, <2>1, <2>2 DEF Sound, Accepted
  <2> QED BY <1>1, <2>1, <2>2, <2>3, BecomesInv
<1> QED BY <1>2, <1>3

LEMMA InterruptInv ==
  ASSUME Inv, NEW c \in Clients, Interrupt(c)
  PROVE  Inv'
<1> DEFINE k == client[c]
           new == [k EXCEPT !.cancelled = TRUE]
<1>1. /\ k \in ClientType /\ Sound(k) /\ Accepted(k, store)
      /\ store' = store /\ store' \in [Keys -> Rollouts] /\ Becomes(c, new)
  BY DEF Inv, ClientInv, Interrupt
<1>2. /\ new \in ClientType /\ new.pc = k.pc /\ new.cmd = k.cmd
      /\ new.key = k.key /\ new.spec = k.spec /\ new.stale = k.stale
  BY <1>1 DEF ClientType
<1>3. Sound(new) /\ Accepted(new, store')
  BY <1>1, <1>2 DEF Sound, Accepted
<1> QED BY <1>1, <1>2, <1>3, BecomesInv

-----------------------------------------------------------------------------
(* The writes, as operations of the register. *)

\* Every rollout steps as its register may.
MayStep(key) == Store(key)!Next

Registers == \A key \in Keys : MayStep(key) \/ UNCHANGED store[key]

\* A write to one key.
LEMMA PutKey ==
  ASSUME NEW key \in Keys, NEW rollout \in Rollouts, Put(key, rollout),
         store \in [Keys -> Rollouts]
  PROVE  /\ store' \in [Keys -> Rollouts] /\ store'[key] = rollout
         /\ \A other \in Keys \ {key} : UNCHANGED store[other]
BY DEF Put

\* The operations of the register, said of one key.
LEMMA RegisterSteps ==
  ASSUME NEW key \in Keys
  PROVE  LET old == store[key] new == store'[key] IN
         /\ \A spec \in Applied :
              old = Absent /\ new = [spec |-> spec, status |-> NewStatus]
                => MayStep(key)
         /\ old # Absent =>
              /\ \A spec \in Applied :
                   new = [old EXCEPT !.spec = spec] => MayStep(key)
              /\ new = [old EXCEPT !.spec.paused = TRUE] => MayStep(key)
              /\ new = [old EXCEPT !.spec.paused = FALSE,
                                   !.spec.abort = FALSE] => MayStep(key)
              /\ new = [old EXCEPT !.spec.abort = TRUE] => MayStep(key)
              /\ new = Absent => MayStep(key)
              /\ \A status \in Statuses :
                   new = [old EXCEPT !.status = status] => MayStep(key)
BY DEF MayStep, Store!Next, Store!Create, Store!Apply, Store!Pause,
       Store!Resume, Store!Abort, Store!Delete, Store!WriteStatus,
       Store!Exists

LEMMA CreatesKey ==
  ASSUME Inv, NEW c \in Clients, Creates(c)
  PROVE  store' \in [Keys -> Rollouts] /\ Registers
<1> DEFINE k == client[c]
           new == [spec |-> k.spec, status |-> NewStatus]
<1>1. k.pc = "create" /\ k.key \in Keys /\ k.spec \in Applied
  BY DEF Inv, ClientInv, Sound, Creates
<1>2. PICK key \in Keys : key = k.key
  BY <1>1
<1>3. store \in [Keys -> Rollouts] /\ store[key] = Absent /\ Put(key, new)
  BY <1>2 DEF Inv, ClientInv, Creates, Stored, At
<1>4. new \in Rollouts
  BY <1>1, StatctlAssumption DEF Rollouts
<1>5. /\ store' \in [Keys -> Rollouts] /\ store'[key] = new
      /\ \A other \in Keys \ {key} : UNCHANGED store[other]
  BY <1>3, <1>4, PutKey
<1>6. MayStep(key)
  BY <1>1, <1>3, <1>5, RegisterSteps
<1> QED BY <1>5, <1>6 DEF Registers

\* A copy the server accepts is the stored rollout with one command's edit.
LEMMA UpdatesKey ==
  ASSUME Inv, NEW c \in Clients, Updates(c)
  PROVE  store' \in [Keys -> Rollouts] /\ Registers
<1> DEFINE k == client[c]
<1>1. /\ k.pc = "update" /\ ~k.stale /\ k.key \in Keys
      /\ k.cmd \in Writers /\ k.spec \in SpecType
      /\ k.cmd = "apply" => k.spec \in Applied
      /\ store[k.key] # Absent /\ IsEdit(k.cmd, store[k.key].spec, k.spec)
  BY DEF Inv, ClientInv, Sound, Accepted, Updates
<1>2. PICK key \in Keys : key = k.key
  BY <1>1
<1> DEFINE old == store[key]
           new == [old EXCEPT !.spec = k.spec]
<1>3. /\ store \in [Keys -> Rollouts] /\ Put(key, new)
      /\ old \in [spec : SpecType, status : Statuses] /\ old # Absent
      /\ IsEdit(k.cmd, old.spec, k.spec)
  BY <1>1, <1>2 DEF Inv, ClientInv, Updates, Rollouts
<1>4. new \in Rollouts
  BY <1>1, <1>3 DEF Rollouts
<1>5. /\ store' \in [Keys -> Rollouts] /\ store'[key] = new
      /\ \A other \in Keys \ {key} : UNCHANGED store[other]
  BY <1>3, <1>4, PutKey
<1>6. MayStep(key)
  <2>1. CASE k.cmd = "apply"
    BY <1>1, <1>3, <1>5, <2>1, RegisterSteps
  <2>2. CASE k.cmd = "pause"
    <3>1. new = [old EXCEPT !.spec.paused = TRUE]
      BY <1>3, <2>2 DEF IsEdit
    <3> QED BY <1>3, <1>5, <3>1, RegisterSteps
  <2>3. CASE k.cmd = "resume"
    <3>1. new = [old EXCEPT !.spec.paused = FALSE, !.spec.abort = FALSE]
      BY <1>3, <2>3 DEF IsEdit
    <3> QED BY <1>3, <1>5, <3>1, RegisterSteps
  <2>4. CASE k.cmd = "abort"
    <3>1. new = [old EXCEPT !.spec.abort = TRUE]
      BY <1>3, <2>4 DEF IsEdit
    <3> QED BY <1>3, <1>5, <3>1, RegisterSteps
  <2> QED BY <1>1, <2>1, <2>2, <2>3, <2>4 DEF Writers
<1> QED BY <1>5, <1>6 DEF Registers

LEMMA DeletesKey ==
  ASSUME Inv, NEW c \in Clients, Deletes(c)
  PROVE  store' \in [Keys -> Rollouts] /\ Registers
<1>1. PICK key \in Keys : key = client[c].key
  BY DEF Deletes, Stored, At
<1>2. /\ store \in [Keys -> Rollouts]
      /\ store[key] # Absent /\ Put(key, Absent)
  BY <1>1 DEF Inv, ClientInv, Deletes, Stored, At
<1>3. /\ store' \in [Keys -> Rollouts] /\ store'[key] = Absent
      /\ \A other \in Keys \ {key} : UNCHANGED store[other]
  BY <1>2, PutKey DEF Rollouts
<1>4. MayStep(key)
  BY <1>2, <1>3, RegisterSteps
<1> QED BY <1>3, <1>4 DEF Registers

LEMMA WritesKey ==
  ASSUME Inv, NEW c \in Clients, Writes(c)
  PROVE  store' \in [Keys -> Rollouts] /\ Registers
BY CreatesKey, UpdatesKey, DeletesKey DEF Writes

\* The controller's report leaves the spec alone, and outdates every copy.
LEMMA ReportKey ==
  ASSUME Inv, NEW key \in Keys, Report(key)
  PROVE  Inv' /\ Registers
<1>1. PICK status \in Statuses :
        Put(key, [store[key] EXCEPT !.status = status])
  BY DEF Report
<1> DEFINE new == [store[key] EXCEPT !.status = status]
<1>2. /\ store \in [Keys -> Rollouts] /\ store[key] # Absent
      /\ store[key] \in [spec : SpecType, status : Statuses]
      /\ client \in [Clients -> ClientType]
  BY DEF Inv, ClientInv, Report, Rollouts
<1>3. new \in Rollouts
  BY <1>2 DEF Rollouts
<1>4. /\ store' \in [Keys -> Rollouts] /\ store'[key] = new
      /\ \A other \in Keys \ {key} : UNCHANGED store[other]
  BY <1>1, <1>2, <1>3, PutKey
<1>5. MayStep(key)
  BY <1>2, <1>4, RegisterSteps
<1>6. ASSUME NEW d \in Clients
      PROVE  /\ client'[d] \in ClientType /\ Sound(client'[d])
             /\ Accepted(client'[d], store')
  <2> DEFINE k == client[d]
             stale == \/ k.stale
                      \/ /\ k.pc = "update" /\ k.key = key
                         /\ store'[key] # store[key]
  <2>1. client'[d] = [k EXCEPT !.stale = stale]
    BY DEF Report
  <2>2. k \in ClientType /\ stale \in BOOLEAN /\ Sound(k) /\ Accepted(k, store)
    BY <1>2 DEF Inv, ClientInv
  <2>3. ~stale => /\ ~k.stale
                  /\ k.pc = "update" /\ k.key = key => store'[key] = store[key]
    OBVIOUS
  <2> HIDE DEF stale
  <2>4. /\ client'[d] \in ClientType
        /\ client'[d].pc = k.pc /\ client'[d].cmd = k.cmd
        /\ client'[d].key = k.key /\ client'[d].spec = k.spec
        /\ client'[d].stale = stale
    BY <2>1, <2>2 DEF ClientType
  <2> HIDE DEF k
  <2>5. Sound(client'[d])
    BY <2>2, <2>4 DEF Sound
  <2>6. Accepted(client'[d], store')
    BY <1>4, <2>2, <2>3, <2>4 DEF Accepted, Sound
  <2> QED BY <2>4, <2>5, <2>6
<1>7. client' = [d \in Clients |-> client'[d]]
  BY DEF Report
<1>8. client' \in [Clients -> ClientType]
  BY <1>6, <1>7
<1> QED BY <1>4, <1>5, <1>6, <1>8 DEF Inv, ClientInv, Registers

LEMMA StepInv ==
  ASSUME Inv, NEW c \in Clients, Step(c)
  PROVE  Inv' /\ Registers
<1>1. store \in [Keys -> Rollouts]
  BY DEF Inv, ClientInv
<1>2. CASE Run(c)
  BY <1>2, RunInv DEF Run, Registers
<1>3. CASE Listed(c)
  BY <1>1, <1>3, EndedInv DEF Listed, Registers
<1>4. CASE GetFound(c)
  BY <1>4, GetFoundInv DEF GetFound, Registers
<1>5. CASE GetAbsent(c)
  BY <1>5, GetAbsentInv DEF GetAbsent, Registers
<1>6. CASE Written(c)
  BY <1>6, WritesKey, EndedInv DEF Written
<1>7. CASE AnswerLost(c)
  BY <1>7, WritesKey, EndedInv DEF AnswerLost
<1>8. CASE Refused(c)
  BY <1>1, <1>8, EndedInv DEF Refused, Registers
<1>9. CASE CallFails(c)
  BY <1>1, <1>9, EndedInv DEF CallFails, Registers
<1>10. CASE Interrupt(c)
  BY <1>10, InterruptInv DEF Interrupt, Registers
<1>11. CASE WatchEnds(c)
  BY <1>1, <1>11, EndedInv DEF WatchEnds, Registers
<1> QED BY <1>2, <1>3, <1>4, <1>5, <1>6, <1>7, <1>8, <1>9, <1>10, <1>11
        DEF Step

LEMMA NextInv ==
  ASSUME Inv, Next
  PROVE  Inv' /\ Registers
BY StepInv, ReportKey DEF Next

LEMMA StutterInv ==
  ASSUME Inv, UNCHANGED vars
  PROVE  Inv'
BY DEF Inv, ClientInv, vars

LEMMA InvHolds == Spec => []Inv
<1>1. Init => Inv
  BY InitInv
<1>2. Inv /\ [Next]_vars => Inv'
  BY NextInv, StutterInv
<1> QED BY <1>1, <1>2, PTL DEF Spec

-----------------------------------------------------------------------------
(* Lines and exit statuses. *)

\* A command works on the rollout its line means; while it runs it has no exit
\* status, and it waits for an answer of its own.
Doing(k) ==
  /\ k.key = k.meant
  /\ k.pc # "idle" =>
       /\ k.exit = ""
       /\ k.pc \in {"list", "delete", "watch"} => k.cmd = k.pc

DoingInv == \A c \in Clients : Doing(client[c])

LEMMA InitDoing == ASSUME Init PROVE DoingInv
BY DEF Init, DoingInv, Doing, Started

\* Only the client that steps has to be looked at.
LEMMA BecomesDoing ==
  ASSUME Inv, DoingInv, NEW c \in Clients, NEW new \in ClientType,
         Becomes(c, new), Doing(new)
  PROVE  DoingInv'
<1>1. client \in [Clients -> ClientType]
  BY DEF Inv, ClientInv
<1>2. client'[c] = new
  BY <1>1, BecomesFields
<1>3. ASSUME NEW d \in Clients \ {c} PROVE Doing(client'[d])
  <2>1. /\ client'[d].pc = client[d].pc /\ client'[d].cmd = client[d].cmd
        /\ client'[d].key = client[d].key
        /\ client'[d].meant = client[d].meant
        /\ client'[d].exit = client[d].exit
    BY <1>1, BecomesFields
  <2> QED BY <2>1 DEF DoingInv, Doing
<1> QED BY <1>2, <1>3 DEF DoingInv

\* A command that ended names no rollout any more.
LEMMA EndedDoing ==
  ASSUME Inv, DoingInv, NEW c \in Clients, NEW failed \in BOOLEAN,
         Becomes(c, Ended(c, failed))
  PROVE  DoingInv'
<1>1. Ended(c, failed).key = None /\ Ended(c, failed).meant = None
  BY DEF Ended, Started
<1> QED BY <1>1, EndedType, BecomesDoing DEF Doing

\* A line that starts a command: SameTarget says that the rollout is the one it
\* means.
LEMMA RunDoing ==
  ASSUME Inv, DoingInv, NEW c \in Clients, Run(c)
  PROVE  DoingInv'
<1>1. PICK run \in Invocations :
        Becomes(c,
         [Started EXCEPT
           !.cmd = run.cmd, !.key = run.target.key, !.meant = run.meant.key,
           !.spec = run.target.spec,
           !.pc = IF run.target.key = None THEN "idle" ELSE FirstCall(run.cmd),
           !.exit = IF run.target.key = None THEN "error" ELSE ""])
  BY DEF Run
<1> DEFINE pc == IF run.target.key = None THEN "idle" ELSE FirstCall(run.cmd)
           exit == IF run.target.key = None THEN "error" ELSE ""
           new == [Started EXCEPT
                    !.cmd = run.cmd, !.key = run.target.key,
                    !.meant = run.meant.key, !.spec = run.target.spec,
                    !.pc = pc, !.exit = exit]
<1>2. Becomes(c, new)
  BY <1>1
<1>3. run.target.key = run.meant.key
  <2>1. PICK cmd \in Commands, line \in Lines :
          run = [cmd |-> cmd, target |-> Target(cmd, Parse(cmd, Tokens(line))),
                 meant |-> Target(cmd, Meant(cmd, line))]
    BY DEF Invocations
  <2>2. Target(cmd, Parse(cmd, Tokens(line))) = Target(cmd, Meant(cmd, line))
    BY SameTarget, LineAssumption
  <2> QED BY <2>1, <2>2
<1>4. /\ pc \in Calls /\ exit \in {"", "error"}
      /\ pc # "idle" => exit = ""
      /\ pc \in {"list", "delete", "watch"} => run.cmd = pc
  BY DEF FirstCall, Calls
<1> HIDE DEF pc, exit
<1>5. /\ new \in ClientType /\ new.pc = pc /\ new.cmd = run.cmd
      /\ new.key = run.target.key /\ new.meant = run.meant.key
      /\ new.exit = exit
  BY <1>4, InvocationType, StartedType DEF ClientType
<1>6. Doing(new)
  BY <1>3, <1>4, <1>5 DEF Doing
<1> QED BY <1>2, <1>5, <1>6, BecomesDoing

\* A command that waits for the next call.
LEMMA GoesOnDoing ==
  ASSUME Inv, DoingInv, NEW c \in Clients, NEW new \in ClientType,
         Becomes(c, new), client[c].pc # "idle",
         new.key = client[c].key, new.meant = client[c].meant,
         new.cmd = client[c].cmd, new.exit = client[c].exit,
         new.pc \in {"create", "update", client[c].pc}
  PROVE  DoingInv'
<1>1. Doing(client[c])
  BY DEF DoingInv
<1>2. Doing(new)
  BY <1>1 DEF Doing
<1> QED BY <1>2, BecomesDoing

LEMMA StepDoing ==
  ASSUME Inv, Inv', DoingInv, NEW c \in Clients, Step(c)
  PROVE  DoingInv'
<1> DEFINE k == client[c]
<1>1. k \in ClientType /\ client'[c] \in ClientType
  BY DEF Inv, ClientInv
<1>2. CASE Run(c)
  BY <1>2, RunDoing
<1>3. CASE \E failed \in BOOLEAN : Becomes(c, Ended(c, failed))
  BY <1>3, EndedDoing
<1>4. CASE GetFound(c) /\ k.cmd # "get"
  <2> DEFINE spec == Edited(c, Stored(k.key).spec)
             new == [k EXCEPT !.pc = "update", !.spec = spec, !.stale = FALSE]
  <2>1. Becomes(c, new) /\ k.pc = "get"
    BY <1>4 DEF GetFound, Waits
  <2> HIDE DEF spec
  <2>2. new = client'[c]
    BY <2>1 DEF Becomes
  <2>3. /\ new \in ClientType /\ new.pc = "update" /\ new.key = k.key
        /\ new.meant = k.meant /\ new.cmd = k.cmd /\ new.exit = k.exit
    BY <1>1, <2>2 DEF ClientType
  <2> HIDE DEF new
  <2> QED BY <2>1, <2>3, GoesOnDoing
<1>5. CASE GetAbsent(c) /\ k.cmd = "apply"
  <2> DEFINE new == [k EXCEPT !.pc = "create"]
  <2>1. Becomes(c, new) /\ k.pc = "get"
    BY <1>5 DEF GetAbsent, Waits
  <2>2. /\ new \in ClientType /\ new.pc = "create" /\ new.key = k.key
        /\ new.meant = k.meant /\ new.cmd = k.cmd /\ new.exit = k.exit
    BY <1>1 DEF ClientType, Calls
  <2> HIDE DEF new
  <2> QED BY <2>1, <2>2, GoesOnDoing
<1>6. CASE Interrupt(c)
  <2> DEFINE new == [k EXCEPT !.cancelled = TRUE]
  <2>1. Becomes(c, new) /\ k.pc # "idle"
    BY <1>6 DEF Interrupt
  <2>2. /\ new \in ClientType /\ new.pc = k.pc /\ new.key = k.key
        /\ new.meant = k.meant /\ new.cmd = k.cmd /\ new.exit = k.exit
    BY <1>1 DEF ClientType
  <2> HIDE DEF new
  <2> QED BY <2>1, <2>2, GoesOnDoing
<1> QED BY <1>2, <1>3, <1>4, <1>5, <1>6
        DEF Step, Listed, GetFound, GetAbsent, Written, AnswerLost, Refused,
            CallFails, WatchEnds

LEMMA ReportDoing ==
  ASSUME Inv, DoingInv, NEW key \in Keys, Report(key)
  PROVE  DoingInv'
<1> SUFFICES ASSUME NEW d \in Clients PROVE Doing(client'[d])
  BY DEF DoingInv
<1> DEFINE k == client[d]
           stale == \/ k.stale
                    \/ /\ k.pc = "update" /\ k.key = key
                       /\ store'[key] # store[key]
<1>1. client'[d] = [k EXCEPT !.stale = stale] /\ k \in ClientType /\ Doing(k)
  BY DEF Report, Inv, ClientInv, DoingInv
<1> HIDE DEF k, stale
<1>2. /\ client'[d].pc = k.pc /\ client'[d].cmd = k.cmd
      /\ client'[d].key = k.key /\ client'[d].meant = k.meant
      /\ client'[d].exit = k.exit
  BY <1>1 DEF ClientType
<1> QED BY <1>1, <1>2 DEF Doing

LEMMA DoingHolds == Spec => [](Inv /\ DoingInv)
<1>1. Inv /\ Inv' /\ DoingInv /\ [Next]_vars => DoingInv'
  <2>1. ASSUME Inv, Inv', DoingInv, Next PROVE DoingInv'
    BY <2>1, StepDoing, ReportDoing DEF Next
  <2>2. ASSUME DoingInv, UNCHANGED vars PROVE DoingInv'
    BY <2>2 DEF vars, DoingInv
  <2> QED BY <2>1, <2>2
<1> QED BY <1>1, InitDoing, InvHolds, PTL DEF Spec

-----------------------------------------------------------------------------

\* Type correctness: only rollouts that may exist are written, and a client
\* that waits for a write has something to write.  (cmdApply, patchRollout.)
THEOREM TypeCorrect == Spec => []TypeOK
<1>1. ASSUME Inv PROVE TypeOK
  <2>1. ASSUME NEW c \in Clients
        PROVE  /\ client[c] \in ClientType
               /\ client[c].pc \in {"create", "update"} =>
                    client[c].spec \in SpecType /\ client[c].key \in Keys
    <3>1. client[c] \in ClientType /\ Sound(client[c])
          /\ Accepted(client[c], store)
      BY <1>1 DEF Inv, ClientInv
    <3> QED BY <3>1, StatctlAssumption DEF Sound
  <2> QED BY <1>1, <2>1 DEF Inv, ClientInv, TypeOK, ClientType, Calls
<1> QED BY <1>1, InvHolds, PTL

\* However the clients and the controller interleave, lose answers or are
\* interrupted, each rollout is one register: the Update of patchRollout and
\* of cmdApply never puts back what somebody else has changed meanwhile.
THEOREM CommandsShareStore == Spec => IsStore
<1>1. ASSUME Init PROVE \A key \in Keys : Store(key)!Init
  BY <1>1 DEF Init, Store!Init
<1>2. Inv /\ [Next]_vars => [Registers]_store
  BY NextInv DEF vars
<1>3. Spec => [][Registers]_store
  BY <1>2, InvHolds, PTL DEF Spec
<1> QED BY <1>1, <1>3, PTL DEF Spec, IsStore, Registers, MayStep

\* For every command line a user can write, every manifest, kubeconfig and
\* environment: a command acts on the rollout its line names, and on none if the
\* line names none.  (splitArgs and parse.)
THEOREM TargetIsMeant == Spec => []RightTarget
<1>1. DoingInv => RightTarget
  BY DEF DoingInv, Doing, RightTarget
<1> QED BY <1>1, DoingHolds, PTL

\* The exit status of the command that steps.
LEMMA ExitOf ==
  ASSUME Inv, DoingInv, NEW c \in Clients
  PROVE  /\ \A new : Becomes(c, new) => client'[c] = new
         /\ ~client[c].cancelled => /\ Ended(c, TRUE).exit = "error"
                                   /\ Ended(c, FALSE).exit = "ok"
         /\ client[c].pc # "idle" => client[c].exit = ""
         /\ \A pc \in Calls :
              [client[c] EXCEPT !.pc = pc].exit = client[c].exit
         /\ [client[c] EXCEPT !.cancelled = TRUE].exit = client[c].exit
<1>1. client[c] \in ClientType /\ Doing(client[c])
  BY DEF Inv, ClientInv, DoingInv
<1>2. \A new : Becomes(c, new) => client'[c] = new
  BY DEF Becomes
<1>3. ~client[c].cancelled => /\ Ended(c, TRUE).exit = "error"
                              /\ Ended(c, FALSE).exit = "ok"
  BY DEF Ended, Started
<1>4. /\ \A pc \in Calls : [client[c] EXCEPT !.pc = pc].exit = client[c].exit
      /\ [client[c] EXCEPT !.cancelled = TRUE].exit = client[c].exit
  BY <1>1 DEF ClientType
<1> QED BY <1>1, <1>2, <1>3, <1>4 DEF Doing

\* What a write that is acknowledged has done to the rollout of the command.
LEMMA WriteDone ==
  ASSUME Inv, DoingInv, NEW c \in Clients, Writes(c)
  PROVE  Goal(client[c].cmd, At(store', client[c].meant), client[c].spec)
<1> DEFINE k == client[c]
<1>1. /\ Sound(k) /\ Accepted(k, store) /\ Doing(k)
      /\ store \in [Keys -> Rollouts]
  BY DEF Inv, ClientInv, DoingInv
<1>2. CASE Creates(c)
  <2>1. k.pc = "create" /\ k.cmd = "apply" /\ k.key \in Keys /\ k.spec \in Applied
    BY <1>1, <1>2 DEF Creates, Sound
  <2> DEFINE new == [spec |-> k.spec, status |-> NewStatus]
  <2>2. new \in Rollouts /\ new # Absent /\ new.spec = k.spec
    BY <2>1, StatctlAssumption DEF Rollouts
  <2>3. Put(k.key, new)
    BY <1>2 DEF Creates
  <2> HIDE DEF new
  <2>4. At(store', k.meant) = new
    BY <1>1, <2>1, <2>2, <2>3, PutKey DEF At, Doing
  <2> QED BY <2>1, <2>2, <2>4 DEF Goal
<1>3. CASE Updates(c)
  <2>1. /\ k.pc = "update" /\ ~k.stale /\ k.key \in Keys /\ k.cmd \in Writers
        /\ k.spec \in SpecType /\ store[k.key] # Absent
        /\ IsEdit(k.cmd, store[k.key].spec, k.spec)
    BY <1>1, <1>3 DEF Updates, Sound, Accepted
  <2> DEFINE old == store[k.key]
             new == [old EXCEPT !.spec = k.spec]
  <2>2. old \in [spec : SpecType, status : Statuses]
    BY <1>1, <2>1 DEF Rollouts
  <2>3. /\ new \in [spec : SpecType, status : Statuses] /\ new.spec = k.spec
    BY <2>1, <2>2
  <2>4. Put(k.key, new)
    BY <1>3 DEF Updates
  <2> HIDE DEF new
  <2>5. At(store', k.meant) = new /\ new # Absent
    <3>1. new \in Rollouts
      BY <2>3 DEF Rollouts
    <3>2. new # Absent
      BY <2>3, StatctlAssumption
    <3>3. store'[k.key] = new
      BY <1>1, <2>1, <2>4, <3>1, PutKey
    <3> QED BY <1>1, <2>1, <3>2, <3>3 DEF At, Doing
  <2>6. old.spec \in SpecType
    BY <2>2
  <2>7. /\ k.cmd = "pause" => k.spec.paused
        /\ k.cmd = "resume" => ~k.spec.paused /\ ~k.spec.abort
        /\ k.cmd = "abort" => k.spec.abort
    BY <2>1, <2>6 DEF IsEdit, SpecType
  <2> HIDE DEF k, old
  <2> QED BY <2>1, <2>3, <2>5, <2>7 DEF Goal, Writers, k
<1>4. CASE Deletes(c)
  <2>1. k.pc = "delete" /\ k.cmd = "delete" /\ k.key \in Keys
    BY <1>1, <1>4 DEF Deletes, Stored, At, Doing
  <2>2. Put(k.key, Absent) /\ Absent \in Rollouts
    BY <1>4 DEF Deletes, Rollouts
  <2>3. At(store', k.meant) = Absent
    BY <1>1, <2>1, <2>2, PutKey DEF At, Doing
  <2> QED BY <2>1, <2>3 DEF Goal
<1> QED BY <1>2, <1>3, <1>4 DEF Writes

LEMMA ExitStep ==
  ASSUME Inv, DoingInv, NEW c \in Clients, Step(c),
         client[c].pc # "idle", client'[c].exit = "ok", ~client[c].cancelled
  PROVE  Goal(client[c].cmd, At(store', client[c].meant), client[c].spec)
<1> DEFINE k == client[c]
<1>1. \A new : Becomes(c, new) => new.exit = "ok"
  BY ExitOf
<1>2. ~Becomes(c, Ended(c, TRUE)) /\ k.exit = ""
  BY <1>1, ExitOf
<1>3. CASE Listed(c)
  <2>1. k.cmd = "list"
    BY <1>3 DEF Listed, Waits, DoingInv, Doing
  <2> QED BY <2>1 DEF Goal
<1>4. CASE GetFound(c)
  <2>1. k.cmd = "get"
    <3> DEFINE spec == Edited(c, Stored(k.key).spec)
               new == [k EXCEPT !.pc = "update", !.spec = spec, !.stale = FALSE]
    <3>1. SUFFICES ASSUME k.cmd # "get" PROVE FALSE
      OBVIOUS
    <3>2. new.exit = "ok"
      BY <1>1, <1>4, <3>1 DEF GetFound
    <3> HIDE DEF spec
    <3>3. k \in ClientType
      BY DEF Inv, ClientInv
    <3>4. new.exit = k.exit
      BY <3>3 DEF ClientType
    <3> QED BY <1>2, <3>2, <3>4
  <2> QED BY <2>1 DEF Goal
<1>5. CASE GetAbsent(c)
  <2> DEFINE new == [k EXCEPT !.pc = "create"]
  <2>1. new.exit = "ok"
    BY <1>1, <1>2, <1>5 DEF GetAbsent
  <2>2. new.exit = k.exit
    BY ExitOf DEF Calls
  <2> QED BY <1>2, <2>1, <2>2
<1>6. CASE Written(c)
  BY <1>6, WriteDone DEF Written
<1>7. CASE Run(c) \/ AnswerLost(c) \/ Refused(c) \/ CallFails(c) \/ WatchEnds(c)
  BY <1>2, <1>7 DEF Run, AnswerLost, Refused, CallFails, WatchEnds
<1>8. CASE Interrupt(c)
  BY <1>1, <1>2, <1>8, ExitOf DEF Interrupt
<1> QED BY <1>3, <1>4, <1>5, <1>6, <1>7, <1>8 DEF Step

\* Only the command's own step ends it.
LEMMA OthersKeepExit ==
  ASSUME Inv, DoingInv, NEW c \in Clients, client[c].pc # "idle",
         \/ UNCHANGED vars
         \/ \E key \in Keys : Report(key)
         \/ \E d \in Clients \ {c} : Step(d)
  PROVE  client'[c].exit = ""
<1>1. client[c] \in ClientType /\ client[c].exit = ""
  BY DEF Inv, ClientInv, DoingInv, Doing
<1>2. CASE UNCHANGED vars
  BY <1>1, <1>2 DEF vars
<1>3. \A stale : [client[c] EXCEPT !.stale = stale].exit = ""
  BY <1>1 DEF ClientType
<1>4. CASE \E key \in Keys : Report(key)
  BY <1>3, <1>4 DEF Report
<1>5. ASSUME NEW d \in Clients \ {c}, NEW new, Becomes(d, new)
      PROVE  client'[c].exit = ""
  BY <1>3, <1>5 DEF Becomes
<1>6. ASSUME NEW d \in Clients \ {c}, Step(d)
      PROVE  \E new : Becomes(d, new)
  BY <1>6 DEF Step, Run, Listed, GetFound, GetAbsent, Written, AnswerLost,
              Refused, CallFails, Interrupt, WatchEnds
<1> QED BY <1>2, <1>4, <1>5, <1>6

\* Exit status 0 of a command that was not interrupted means that the rollout
\* the user meant is as the command promises, however calls fail, answers are
\* lost and others write.  (patchRollout, cmdApply, cmdDelete, main.)
THEOREM ExitIsTrue == Spec => ExitMeansDone
<1>1. ASSUME Inv, DoingInv, [Next]_vars, NEW c \in Clients,
             client[c].pc # "idle", client'[c].exit = "ok", ~client[c].cancelled
      PROVE  Goal(client[c].cmd, At(store', client[c].meant), client[c].spec)
  <2>1. CASE Step(c)
    BY <1>1, <2>1, ExitStep
  <2>2. CASE ~Step(c)
    <3>1. client'[c].exit = ""
      BY <1>1, <2>2, OthersKeepExit DEF Next
    <3> QED BY <1>1, <3>1
  <2> QED BY <2>1, <2>2
<1>2. Inv /\ DoingInv /\ [Next]_vars =>
        \A c \in Clients :
          LET before == client[c] IN
          before.pc # "idle" /\ client'[c].exit = "ok" /\ ~before.cancelled
            => Goal(before.cmd, At(store', before.meant), before.spec)
  BY <1>1
<1> QED BY <1>2, DoingHolds, PTL DEF Spec, ExitMeansDone

=============================================================================
