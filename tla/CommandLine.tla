---------------------------- MODULE CommandLine ----------------------------
(***************************************************************************)
(* How statctl reads a command line (cmd/statctl/main.go, client.go and    *)
(* the flag sets of commands.go): splitArgs separates flags from names in  *)
(* any order, Go's flag package then reads the flags, and what a command   *)
(* acts on follows from both, from the manifest and from the kubeconfig.   *)
(*                                                                         *)
(* A user writes items: names, and flags with a value, which may be joined *)
(* to the flag by "=" or follow it.  A token is one element of os.Args.    *)
(* "-" (standard input) is a word like any other: every test of splitArgs  *)
(* treats it as one.                                                       *)
(***************************************************************************)
EXTENDS Naturals, Sequences, SequencesExt

CONSTANTS
  None,        \* no value; what a bad manifest or kubeconfig yields
  Words,       \* what names and values may be
  Numbers,     \* the words --interval accepts
  Lines,       \* the lines of items users write
  Files,       \* [Words -> manifest or None]
  Kubeconfigs, \* [Words \cup {None} -> cluster or None]; None is no file at
               \* all, which only works inside a cluster
  EnvConfig,   \* $KUBECONFIG, or None
  HomeConfig   \* ~/.kube/config if it exists, or None

Commands == {"list", "get", "apply", "pause", "resume", "abort", "delete",
             "watch"}

\* The commands that name a rollout.
Named == Commands \ {"list", "apply"}

\* The field a flag is registered for: two names may share one.
Field == [n |-> "namespace", namespace |-> "namespace",
          kubeconfig |-> "kubeconfig", f |-> "file", file |-> "file",
          interval |-> "interval"]

\* The flags of a subcommand's flag set.
Flags(cmd) ==
  {"n", "namespace", "kubeconfig"}
    \cup (IF cmd = "apply" THEN {"f", "file"} ELSE {})
    \cup (IF cmd = "watch" THEN {"interval"} ELSE {})

Defaults == [namespace |-> "default", kubeconfig |-> None, file |-> None,
             interval |-> None]

-----------------------------------------------------------------------------
(* The tokens of a line. *)

Token(flag, value) == [flag |-> flag, value |-> value]

Name(w) == [flag |-> None, value |-> w, joined |-> FALSE]

Set(flag, w) == [flag |-> flag, value |-> w, joined |-> TRUE]

Give(flag, w) == [flag |-> flag, value |-> w, joined |-> FALSE]

\* What can be written: flags no subcommand knows are left out.
Item == {Name(w) : w \in Words}
          \cup {Set(flag, w) : flag \in DOMAIN Field, w \in Words}
          \cup {Give(flag, w) : flag \in DOMAIN Field, w \in Words}

\* Lines are made of items, and None is neither a word nor a flag.
ASSUME LineAssumption ==
  /\ Lines \subseteq Seq(Item)
  /\ None \notin Words /\ None \notin DOMAIN Field

TokensOf(item) ==
  IF item.flag = None \/ item.joined THEN <<Token(item.flag, item.value)>>
  ELSE <<Token(item.flag, None), Token(None, item.value)>>

Followed(tokens, item) == tokens \o TokensOf(item)

Tokens(items) == FoldLeft(Followed, <<>>, items)

-----------------------------------------------------------------------------
(* splitArgs *)

\* Mutant: a flag written with "=" consumes the next token as well.
TakesAlways(token) == token.flag # None

\* The next token is the value of this one, if it is not a flag itself.
TakesNext(token) == token.flag # None /\ token.value = None

SplitToken(acc, token) ==
  IF token.flag # None \/ acc.takes
  THEN [acc EXCEPT !.flags = Append(@, token), !.takes = TakesNext(token)]
  ELSE [acc EXCEPT !.positional = Append(@, token.value)]

SplitArgs(tokens) ==
  FoldLeft(SplitToken, [flags |-> <<>>, positional |-> <<>>, takes |-> FALSE],
           tokens)

-----------------------------------------------------------------------------
(* fs.Parse *)

\* The flag set of a command before it parses.  at: whether it still reads
\* flags, has met the first word that is none, or a flag or value it refuses;
\* wants: the flag whose value comes next.
FlagSet(cmd) ==
  [flags |-> Flags(cmd), fields |-> Defaults, wants |-> None, at |-> "flags"]

Assigned(fs, flag, word) ==
  [fs EXCEPT !.fields = [@ EXCEPT ![Field[flag]] = word],
             !.at = IF flag = "interval" /\ word \notin Numbers THEN "error"
                    ELSE @,
             !.wants = None]

\* A flag takes the next token, whatever it looks like; the first word that is
\* no value ends the flags, and the rest is ignored.
ParseToken(fs, token) ==
  IF fs.at # "flags" THEN fs
  ELSE IF fs.wants # None THEN Assigned(fs, fs.wants, token.value)
  ELSE IF token.flag = None THEN [fs EXCEPT !.at = "end"]
  ELSE IF token.flag \notin fs.flags THEN [fs EXCEPT !.at = "error"]
  ELSE IF token.value # None THEN Assigned(fs, token.flag, token.value)
  ELSE [fs EXCEPT !.wants = token.flag]

ParseFlags(cmd, tokens) == FoldLeft(ParseToken, FlagSet(cmd), tokens)

\* parse: the fields, and the first name; the others are ignored.
Parse(cmd, tokens) ==
  LET split == SplitArgs(tokens)
      fs == ParseFlags(cmd, split.flags)
  IN [ok |-> fs.at # "error" /\ fs.wants = None,
      fields |-> fs.fields,
      name |-> IF split.positional = <<>> THEN None
               ELSE Head(split.positional)]

-----------------------------------------------------------------------------
(* What the user means, said without tokens: the name is the first item    *)
(* that is no flag, and a field has the last value given for it.           *)

Names(items) == {i \in DOMAIN items : items[i].flag = None}

Given(items, field) ==
  {i \in DOMAIN items : items[i].flag # None /\ Field[items[i].flag] = field}

Allowed(cmd, item) ==
  /\ item.flag \in Flags(cmd) \cup {None}
  /\ item.flag = "interval" => item.value \in Numbers

Meant(cmd, items) ==
  [ok |-> \A i \in DOMAIN items : Allowed(cmd, items[i]),
   fields |-> [field \in DOMAIN Defaults |->
                 IF Given(items, field) = {} THEN Defaults[field]
                 ELSE items[Max(Given(items, field))].value],
   name |-> IF Names(items) = {} THEN None
            ELSE items[Min(Names(items))].value]

-----------------------------------------------------------------------------
(* From a parsed line to the rollout it is about. *)

\* newClient: the flag, else $KUBECONFIG, else the file in the home directory.
Cluster(kubeconfig) ==
  Kubeconfigs[IF kubeconfig # None THEN kubeconfig
              ELSE IF EnvConfig # None THEN EnvConfig ELSE HomeConfig]

\* The manifest apply reads: None if there is no file, it cannot be read or is
\* not a named CanaryRollout.
Manifest(file) == IF file \in DOMAIN Files THEN Files[file] ELSE None

Usable(cmd, parsed) ==
  /\ parsed.ok
  /\ cmd \in Named => parsed.name # None
  /\ cmd = "apply" => Manifest(parsed.fields.file) # None
  /\ Cluster(parsed.fields.kubeconfig) # None

Key(parsed, namespace, name) ==
  [cluster |-> Cluster(parsed.fields.kubeconfig), namespace |-> namespace,
   name |-> name]

\* The key and the spec of a line: the namespace a manifest names comes before
\* the one of the flags.
Target(cmd, parsed) ==
  LET namespace == parsed.fields.namespace
      manifest == Manifest(parsed.fields.file) IN
  IF ~Usable(cmd, parsed) THEN [key |-> None, spec |-> None]
  ELSE IF cmd = "list"
  THEN [key |-> Key(parsed, namespace, None), spec |-> None]
  ELSE IF cmd # "apply"
  THEN [key |-> Key(parsed, namespace, parsed.name), spec |-> None]
  ELSE [key |-> Key(parsed, IF manifest.namespace = None THEN namespace
                            ELSE manifest.namespace, manifest.name),
        spec |-> manifest.spec]

\* Every command with every line: what it takes the line to mean, and what the
\* line means.
Invocations ==
  {[cmd |-> cmd, target |-> Target(cmd, Parse(cmd, Tokens(line))),
    meant |-> Target(cmd, Meant(cmd, line))] : cmd \in Commands, line \in Lines}

=============================================================================
