------------------------------- MODULE Arguments -------------------------------
(***************************************************************************)
(* How the command line and the JSONC file become the settings of the      *)
(* process and of each instance, in zakuro and in zakuro-moq (args.rs of   *)
(* both). Three layers, the later one winning: the top level of the file   *)
(* (a template), instances[i], the command line. Each layer becomes a list *)
(* of tokens; the lists are joined, repeated options are removed, and the  *)
(* noargs parser takes what is left.                                       *)
(*                                                                         *)
(* Four options stand for all: one of the process, and of an instance one  *)
(* with a value, one flag, and one whose value is true or false. A token   *)
(* is --key, --key=value, or a bare word; these are the only differences   *)
(* between strings that the code looks at.                                 *)
(***************************************************************************)
EXTENDS Naturals, Sequences, FiniteSets, FiniteSetsExt, SequencesExt

CONSTANTS
  Keys, Values       (* strings that may be written as a key, and as a value *)

Programs == {"zakuro", "zakuro-moq"}
Options == {"log-level", "vcs", "flag", "audio"}
Nothing == "nothing"

(* What each option accepts; "on" is a flag that is present.                *)
Accepts == [k \in Options |->
  CASE k = "log-level" -> {"info", "error"}
    [] k = "vcs" -> {"1", "2"}
    [] k = "flag" -> {"on"}
    [] k = "audio" -> {"true", "false"}]

is_common_key(k) == k = "log-level"
is_flag(k) == k = "flag"

Key(k) == [form |-> "key", key |-> k, value |-> Nothing]
Eq(k, v) == [form |-> "eq", key |-> k, value |-> v]
Word(v) == [form |-> "word", key |-> Nothing, value |-> v]
Dashed(token) == token.form \in {"key", "eq"}
Tokens ==
  {Key(k) : k \in Keys} \cup {Eq(k, v) : k \in Keys, v \in Values} \cup {Word(v) : v \in Values}

(* The values that the code itself writes are strings like any other.       *)
ASSUME ArgumentsAssumption == Nothing \notin Values /\ {"true", "false"} \subseteq Values

-----------------------------------------------------------------------------
(* The file. A member is a key and a value; "yes" and "no" are the JSON     *)
(* booleans. The keys of Sora's own options are written inside the "sora"   *)
(* object, "config" must not be written at all, "name" is a key of another  *)
(* version, ignored by zakuro and passed on by zakuro-moq.                  *)

Members == [key : Keys, value : Values, nested : BOOLEAN]
Objects == {o \in Seq(Members) : \A i, j \in DOMAIN o : o[i].key = o[j].key => i = j}

IsBoolean(v) == v \in {"yes", "no"}

(* push_kv of zakuro: a boolean becomes the bare option, or nothing.        *)
PushZakuro(k, v) ==
  IF IsBoolean(v) THEN (IF v = "yes" THEN <<Key(k)>> ELSE <<>>)
  ELSE <<Key(k), Word(v)>>

(* push_kv of zakuro-moq: a boolean is the value of an option that has one. *)
PushMoq(k, v) ==
  IF IsBoolean(v) /\ is_flag(k) THEN (IF v = "yes" THEN <<Key(k)>> ELSE <<>>)
  ELSE <<Key(k), Word(IF v = "yes" THEN "true" ELSE IF v = "no" THEN "false" ELSE v)>>

push_kv(program, k, v) ==
  IF program = "zakuro" THEN PushZakuro(k, v) ELSE PushMoq(k, v)

Ignored(program, m) == program = "zakuro" /\ m.key = "name"

(* The tokens of the members that are common options, or of the others.     *)
Push(program, members, common) ==
  FlattenSeq([i \in DOMAIN members |->
    IF Ignored(program, members[i]) \/ is_common_key(members[i].key) # common THEN <<>>
    ELSE push_kv(program, members[i].key, members[i].value)])

RejectedAtTop(m) == m.key = "config"
RejectedInInstance(program, m) ==
  \/ m.key = "config" \/ is_common_key(m.key)
  \/ program = "zakuro" /\ m.key = "audio" /\ ~m.nested

(* parse_jsonc_config and expand_instances: the template is copied in front *)
(* of the members of each instance. No "instances" key is one instance.     *)
FileRejected(program, file) ==
  \/ \E i \in DOMAIN file.top : RejectedAtTop(file.top[i])
  \/ \E n \in DOMAIN file.instances :
       \E i \in DOMAIN file.instances[n] :
         RejectedInInstance(program, file.instances[n][i])

expand_instances(program, file) ==
  LET template == Push(program, file.top, FALSE)
  IN  IF file.instances = <<>> THEN <<template>>
      ELSE [n \in DOMAIN file.instances |-> template \o Push(program, file.instances[n], FALSE)]

NoFile == [top |-> <<>>, instances |-> <<>>]

-----------------------------------------------------------------------------
(* Lists of tokens, taken apart into units of one token or two.             *)

(* The positions where a unit starts, when the unit at i takes size[i].     *)
Starts(argv, size) ==
  LET start[i \in 1 .. Len(argv)] == i = 1 \/ ~(start[i - 1] /\ size[i - 1] = 2)
  IN  {i \in 1 .. Len(argv) : start[i]}

UnitAt(argv, size) ==
  [i \in DOMAIN argv |-> IF size[i] = 2 THEN <<argv[i], argv[i + 1]>> ELSE <<argv[i]>>]

(* The units at a set of positions, in order.                               *)
Gathered(units, positions) ==
  FlattenSeq([i \in DOMAIN units |-> IF i \in positions THEN units[i] ELSE <<>>])

IsCommon(token) == Dashed(token) /\ is_common_key(token.key)

(* split_cli_argv of zakuro: an option takes the next token as its value,   *)
(* which must not be another option.                                        *)
SplitZakuro(cli) ==
  LET size == [i \in DOMAIN cli |->
                 IF cli[i].form = "key" /\ ~is_flag(cli[i].key) /\ i < Len(cli) THEN 2 ELSE 1]
      starts == Starts(cli, size)
      Part(common) == Gathered(UnitAt(cli, size), {i \in starts : IsCommon(cli[i]) = common})
  IN  [ok |-> \A i \in starts : size[i] = 2 => ~Dashed(cli[i + 1]),
       common |-> Part(TRUE), instance |-> Part(FALSE)]

(* split_cli_argv of zakuro-moq: an option without a value stands alone,    *)
(* and --key=value of a common option is taken apart.                       *)
SplitMoq(cli) ==
  LET size == [i \in DOMAIN cli |->
                 IF /\ cli[i].form = "key" /\ ~is_flag(cli[i].key)
                    /\ i < Len(cli) /\ ~Dashed(cli[i + 1]) THEN 2 ELSE 1]
      starts == Starts(cli, size)
      units == UnitAt(cli, size)
      apart == [i \in DOMAIN cli |->
                  IF cli[i].form = "eq" THEN <<Key(cli[i].key), Word(cli[i].value)>> ELSE units[i]]
  IN  [ok |-> TRUE, common |-> Gathered(apart, {i \in starts : IsCommon(cli[i])}),
       instance |-> Gathered(units, {i \in starts : ~IsCommon(cli[i])})]

split_cli_argv(program, cli) ==
  IF program = "zakuro" THEN SplitZakuro(cli) ELSE SplitMoq(cli)

(* dedupe_argv_last_wins: of the units with one key the last stays.         *)
Deduped(argv, overridden) ==
  LET size == [i \in DOMAIN argv |->
                 IF argv[i].form = "key" /\ ~is_flag(argv[i].key) /\ i < Len(argv) THEN 2 ELSE 1]
      starts == Starts(argv, size)
      kept == {i \in starts : ~ \E j \in starts :
                 /\ <<i, j>> \in overridden /\ Dashed(argv[i]) /\ Dashed(argv[j])
                 /\ argv[i].key = argv[j].key}
  IN  Gathered(UnitAt(argv, size), kept)

dedupe_argv_first_wins(argv) ==
  Deduped(argv, {p \in (DOMAIN argv) \X (DOMAIN argv) : p[2] < p[1]})     \* MUTANT
dedupe_argv_last_wins(argv) ==
  Deduped(argv, {p \in (DOMAIN argv) \X (DOMAIN argv) : p[1] < p[2]})

(* The noargs parser: it takes the first occurrence of each option it is    *)
(* asked for, and finish() rejects whatever nobody took.                    *)
Occurrences(argv, k) == {i \in DOMAIN argv : Dashed(argv[i]) /\ argv[i].key = k}

Taken(argv, k) ==
  LET is == {i \in Occurrences(argv, k) : argv[i].form = "key" \/ ~is_flag(k)}
      i == Min(is)
  IN  IF is = {} THEN {}
      ELSE IF is_flag(k) \/ argv[i].form = "eq" THEN {i} ELSE {i, i + 1}

ValueOf(argv, k) ==
  LET taken == Taken(argv, k)
      i == Min(taken)
  IN  IF taken = {} THEN Nothing
      ELSE IF is_flag(k) THEN "on"
      ELSE IF argv[i].form = "eq" THEN argv[i].value
      ELSE IF i < Len(argv) /\ ~Dashed(argv[i + 1]) THEN argv[i + 1].value
      ELSE "missing"

Parsed(argv, options) ==
  [ok |-> /\ UNION {Taken(argv, k) : k \in options} = DOMAIN argv
          /\ \A k \in options : ValueOf(argv, k) \in Accepts[k] \cup {Nothing},
   settings |-> [k \in options |-> ValueOf(argv, k)]]

CommonOptions == {k \in Options : is_common_key(k)}
InstanceOptions == Options \ CommonOptions

(* parse_args: the settings of the process and of each instance, or nothing *)
(* when any part is rejected.                                               *)
Rejected == [ok |-> FALSE, common |-> <<>>, instances |-> <<>>]

parse_args(program, file, cli) ==
  LET split == split_cli_argv(program, cli)
      common == Parsed(dedupe_argv_last_wins(Push(program, file.top, TRUE) \o split.common),
                       CommonOptions)
      argvs == expand_instances(program, file)
      instances == [n \in DOMAIN argvs |->
                      Parsed(dedupe_argv_last_wins(argvs[n] \o split.instance), InstanceOptions)]
  IN  IF FileRejected(program, file) \/ ~split.ok \/ ~common.ok
         \/ \E n \in DOMAIN instances : ~instances[n].ok
      THEN Rejected
      ELSE [ok |-> TRUE, common |-> common.settings,
            instances |-> [n \in DOMAIN instances |-> instances[n].settings]]

-----------------------------------------------------------------------------
(* peek_log_config of zakuro reads the log level before the real parse: the *)
(* last one on the command line, otherwise that of the file; a value that   *)
(* cannot be used is left to the parse to reject.                           *)

Readable(v) == IF v \in Accepts["log-level"] THEN v ELSE Nothing

peek_option_value(tokens) ==
  LET valued == {i \in DOMAIN tokens :
                   /\ tokens[i].key = "log-level"
                   /\ \/ tokens[i].form = "eq"
                      \/ /\ tokens[i].form = "key" /\ i < Len(tokens)
                         /\ ~Dashed(tokens[i + 1])}
      i == Max(valued)
  IN  IF valued = {} THEN Nothing
      ELSE IF tokens[i].form = "eq" THEN tokens[i].value ELSE tokens[i + 1].value

peek_jsonc_option_value(file) ==
  LET is == {i \in DOMAIN file.top : file.top[i].key = "log-level"}
      value == file.top[Min(is)].value
  IN  IF is = {} \/ IsBoolean(value) THEN Nothing ELSE value

peek_log_config(file, cli) ==
  LET fromCli == Readable(peek_option_value(cli))
      fromFile == Readable(peek_jsonc_option_value(file))
  IN  IF fromCli # Nothing THEN fromCli ELSE IF fromFile # Nothing THEN fromFile ELSE "info"

===============================================================================
