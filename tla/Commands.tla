------------------------------ MODULE Commands ------------------------------
(***************************************************************************)
(* From what a user types to what a tool is given (ParameterValidator.ts   *)
(* and executeAuthorizedCommand of registry.ts): a line is split into      *)
(* words, the words become the arguments of the tool, and these are        *)
(* validated, as are those a model sends.  Who may use a tool is in        *)
(* Access, how it runs in Turn.                                            *)
(*                                                                         *)
(* A word is [name, text], written name=text, or one without a name; a     *)
(* value is [type, words].  A tool is                                      *)
(*   keys      its parameters, in order                                    *)
(*   params    [key -> [type, enum, beyond]]: beyond, the texts that break *)
(*             a limit of its schema (length, range, pattern)              *)
(*   required  the keys every call needs                                   *)
(*   grammar   [action -> [args, needs]], empty when it declares none      *)
(*   tables    [action -> keys] and needs [action -> keys], what the       *)
(*             validator knows of it beyond its grammar                    *)
(*   alone     the commands that may come without words                    *)
(*   infers, infersWith  [command -> action], the second with words        *)
(* Abstracted: nested schemas, which no tool has, and the texts of errors. *)
(***************************************************************************)
EXTENDS Stage, SequencesExt

CONSTANTS
  Lower,      \* [Texts -> Texts]: the texts in lower case
  Integers,   \* the texts that are whole numbers
  Numbers,    \* those that are numbers
  Booleans,   \* those that are a yes or a no
  Characters, \* what the lines are made of that only Split sees
  MaxLine     \* bound: characters of a word of such a line

ASSUME CommandsAssumption == Lower \in [DOMAIN Lower -> DOMAIN Lower] /\ Integers \subseteq Numbers /\ MaxLine \in Nat

VARIABLE invocation \* [at, by, command, words, args]: at = "none", "parsed", "ran" or "refused"

commandVars == <<invocation>>

tool == scene.tool

Nothing == [key \in {} |-> None]

CommandsInit == invocation = [at |-> "none", by |-> None, command |-> None, words |-> <<>>, args |-> Nothing]
-----------------------------------------------------------------------------
(* Splitting a line of characters: quotes of two kinds, and a backslash    *)
(* that takes the next one as it is, in quotes too.                        *)
Quotes == {"'", "\""}

Character(s, c) ==
  IF s.escaped THEN [s EXCEPT !.word = Append(@, c), !.escaped = FALSE]
  ELSE IF c = "\\" THEN [s EXCEPT !.escaped = TRUE, !.started = TRUE]
  ELSE IF s.quote # None THEN IF c = s.quote THEN [s EXCEPT !.quote = None] ELSE [s EXCEPT !.word = Append(@, c)]
  ELSE IF c \in Quotes THEN [s EXCEPT !.quote = c, !.started = TRUE]
  ELSE IF c = " " THEN IF s.started THEN [s EXCEPT !.words = Append(@, s.word), !.word = <<>>, !.started = FALSE] ELSE s
  ELSE [s EXCEPT !.word = Append(@, c), !.started = TRUE]

Trimmed(line) ==
  LET said == {i \in 1 .. Len(line) : line[i] # " "}
  IN  IF said = {} THEN <<>> ELSE SubSeq(line, CHOOSE i \in said : \A j \in said : i <= j, CHOOSE i \in said : \A j \in said : i >= j)

(* parseCommandString *)
Split(line) ==
  LET end == FoldLeft(Character, [words |-> <<>>, word |-> <<>>, quote |-> None, escaped |-> FALSE, started |-> FALSE], Trimmed(line))
      word == IF end.escaped THEN Append(end.word, "\\") ELSE end.word
  IN  IF end.started THEN Append(end.words, word) ELSE end.words
-----------------------------------------------------------------------------
Bare(text) == [name |-> None, text |-> text]

(* A word as it is compared with actions and options: one of the form      *)
(* name=text is neither.                                                   *)
Heard(word) == IF word.name = None THEN Lower[word.text] ELSE None

Param(key) == IF key \in DOMAIN tool.params THEN tool.params[key] ELSE [type |-> None, enum |-> <<>>, beyond |-> {}]

NotParsed == [ok |-> FALSE, stopped |-> TRUE, index |-> 0, args |-> Nothing]
NoArgs == [ok |-> TRUE, stopped |-> FALSE, index |-> 0, args |-> Nothing]

Value(type, words) == [type |-> type, words |-> words]

With(args, key, value) == [k \in DOMAIN args \cup {key} |-> IF k = key THEN value ELSE args[k]]

(* parseScalar *)
Scalar(type, word) ==
  CASE type \in {"number", "integer"} -> IF word.name = None /\ word.text \in (IF type = "integer" THEN Integers ELSE Numbers) THEN Value("number", <<word>>) ELSE None
    [] type = "boolean" -> IF Heard(word) \in Booleans THEN Value("boolean", <<word>>) ELSE None
    [] OTHER -> Value("string", <<word>>)

Put(s, key, word, index) ==
  LET value == Scalar(Param(key).type, word)
  IN  IF value = None THEN NotParsed ELSE [s EXCEPT !.args = With(@, key, value), !.index = index]

(* The rest of the words is one text. *)
PutRest(s, key, words, index) == [s EXCEPT !.args = With(@, key, Value("string", SubSeq(words, s.index + 1, Len(words)))), !.index = index]

FreeText == {"query", "message", "content", "watermark_text", "text"}

(* Mutant of Leftover: words that no argument takes are ignored.           *)
LeftoverIgnored(s, words) == FALSE

Leftover(s, words) == s.index < Len(words)

(* The fields of an action, by the grammar, or else the validator's table. *)
Fields(action) ==
  IF action \in DOMAIN tool.grammar THEN tool.grammar[action].args
  ELSE IF action \in DOMAIN tool.tables THEN tool.tables[action] ELSE None

(* ACTION_REQUIREMENTS *)
Needed(args) ==
  "action" \in DOMAIN args => LET action == args["action"].words[1].text
                              IN  action \in DOMAIN tool.needs => tool.needs[action] \subseteq DOMAIN args

(* assertParsedEnums: an option is written as the schema has it.           *)
Options(key, value) == IF Len(value.words) # 1 THEN {} ELSE {e \in ToSet(Param(key).enum) : Lower[e] = Heard(value.words[1])}

Canonical(args) ==
  IF \E key \in DOMAIN args : Param(key).enum # <<>> /\ Options(key, args[key]) = {} THEN None
  ELSE [key \in DOMAIN args |-> IF Param(key).enum = <<>> THEN args[key]
                                ELSE [args[key] EXCEPT !.words = <<Bare(CHOOSE e \in Options(key, args[key]) : TRUE)>>]]

(* assertGrammar: an action takes what its variant declares, and all it needs. *)
FitsVariant(args) ==
  tool.grammar # Nothing /\ "action" \in DOMAIN args =>
    LET action == args["action"].words[1].text
    IN  /\ action \in DOMAIN tool.grammar
        /\ DOMAIN args \ {"action"} \subseteq ToSet(tool.grammar[action].args)
        /\ tool.grammar[action].needs \subseteq DOMAIN args

(* How every parse ends. *)
Parsed(s, words, fits) ==
  LET args == Canonical(s.args)
  IN  IF ~s.ok \/ Leftover(s, words) THEN NotParsed
      ELSE IF args = None THEN NotParsed
      ELSE IF Needed(args) /\ (fits => FitsVariant(args)) THEN [s EXCEPT !.args = args] ELSE NotParsed

Doing(action) == ("action" :> Value("string", <<Bare(action)>>))

(* parseActionSpecific.  The words without a name are counted apart, but   *)
(* one that is read alone is taken from among all of them; and the fields  *)
(* end with the first that finds none, whatever was named after it.        *)
ByAction(typed, action) ==
  LET words      == IF typed # <<>> /\ Heard(typed[1]) = Lower[action] THEN Tail(typed) ELSE typed
      fields     == Fields(action)
      named(key) == SelectSeq(words, LAMBDA w : w.name = key)
      positional == SelectSeq(words, LAMBDA w : w.name \notin ToSet(fields))
      Field(s, i) ==
        LET key == fields[i]
        IN  IF s.stopped THEN s
            ELSE IF named(key) # <<>> THEN Put(s, key, Bare(Last(named(key)).text), s.index)
            ELSE IF ~Leftover(s, positional) THEN [s EXCEPT !.stopped = TRUE]
            ELSE IF Param(key).type = "string" /\ (i = Len(fields) \/ key \in FreeText) THEN PutRest(s, key, positional, Len(words))
            ELSE Put(s, key, words[s.index + 1], s.index + 1)
  IN  Parsed(FoldLeftDomain(Field, [NoArgs EXCEPT !.args = Doing(action)], fields), positional, FALSE)

Actions == IF tool.keys = <<>> THEN {} ELSE {Lower[e] : e \in ToSet(Param(tool.keys[1]).enum)}

(* One argument after the other, in the order of the schema. *)
BySchema(words, action, inferred, alone) ==
  LET Key(s, i) ==
        LET key   == tool.keys[i]
            later == {tool.keys[j] : j \in i + 1 .. Len(tool.keys)}
            rest  == /\ later \cap tool.required = {}
                     /\ key \in FreeText \/ (Param(key).type = "string" /\ \A k \in later : Param(k).type # "string")
        IN  IF s.stopped THEN s
            ELSE IF i = 1 /\ action # None /\ Actions # {} /\ words # <<>> /\ Heard(words[1]) \notin Actions
                 THEN [s EXCEPT !.args = Doing(action)]
            ELSE IF ~Leftover(s, words) THEN [s EXCEPT !.stopped = TRUE]
            ELSE IF rest THEN PutRest(s, key, words, Len(words))
            ELSE Put(s, key, words[s.index + 1], s.index + 1)
      end == FoldLeftDomain(Key, NoArgs, tool.keys)
      all == IF inferred # None /\ "action" \notin DOMAIN end.args THEN [end EXCEPT !.args = @ @@ Doing(inferred)] ELSE end
  IN  IF tool.required \subseteq DOMAIN end.args \/ alone THEN Parsed(all, words, TRUE) ELSE NotParsed

(* ParameterValidator.parseArgs.  A command may stand for an action; the   *)
(* first word, if it names one, comes before.                              *)
Inferred(words, command) ==
  IF words # <<>> /\ command \in DOMAIN tool.infersWith THEN tool.infersWith[command]
  ELSE IF command \in Actions THEN command
  ELSE IF command \in DOMAIN tool.infers THEN tool.infers[command] ELSE None

Parse(words, command) ==
  LET inferred == Inferred(words, command)
      alone    == command \in tool.alone
      action   == IF words # <<>> /\ Heard(words[1]) \in Actions THEN words[1].text ELSE inferred
      only     == tool.keys[1]
  IN  IF tool.keys = <<>> THEN NoArgs
      ELSE IF alone /\ words = <<>> THEN IF inferred = None THEN NoArgs ELSE [NoArgs EXCEPT !.args = Doing(inferred)]
      ELSE IF action # None /\ Fields(action) # None THEN ByAction(words, action)
      ELSE IF Len(tool.keys) = 1 /\ Param(only).type = "string"
      THEN IF words = <<>> /\ only \in tool.required THEN NotParsed
           ELSE Parsed(PutRest(NoArgs, only, words, Len(words)), words, TRUE)
      ELSE BySchema(words, action, inferred, alone)
-----------------------------------------------------------------------------
(* validateValue: its type, an option of the schema, within the limits.    *)
FitsParam(param, value) ==
  /\ \/ value.type = param.type
     \/ param.type = "integer" /\ value.type = "number" /\ value.words[1].text \in Integers
  /\ param.enum # <<>> => value.words \in {<<Bare(e)>> : e \in ToSet(param.enum)}
  /\ \A i \in 1 .. Len(value.words) : value.words[i].text \notin param.beyond

(* validateToolArguments; a schema is closed unless it says otherwise.     *)
Valid(args) ==
  /\ tool.required \subseteq DOMAIN args /\ DOMAIN args \subseteq DOMAIN tool.params
  /\ \A key \in DOMAIN args : FitsParam(tool.params[key], args[key])
  /\ FitsVariant(args) /\ Needed(args)

(* executeAuthorizedCommand: the parse, ... *)
TypeCommand(command, words) ==
  /\ invocation.at = "none" /\ Spend("type")
  /\ LET parse == Parse(words, command)
     IN  invocation' = [at |-> IF parse.ok THEN "parsed" ELSE "refused", by |-> "user", command |-> command, words |-> words, args |-> parse.args]

(* A model sends an object. *)
SendCall(args) ==
  /\ invocation.at = "none" /\ Spend("call")
  /\ invocation' = [invocation EXCEPT !.at = "parsed", !.by = "model", !.args = args]

(* ... and, when the roles are known, what remains of it. *)
RunTool ==
  /\ invocation.at = "parsed" /\ UNCHANGED stage
  /\ invocation' = [invocation EXCEPT !.at = IF Valid(invocation.args) THEN "ran" ELSE "refused"]

CommandsNext ==
  \/ \E command \in scene.commands, n \in 0 .. scene.longest : \E words \in [1 .. n -> scene.vocabulary] : TypeCommand(command, words)
  \/ \E keys \in SUBSET tool.offers : \E args \in [keys -> scene.values] : SendCall(args)
  \/ RunTool
-----------------------------------------------------------------------------
(* A word in double quotes, with what must be escaped in them.             *)
Quoted(word) ==
  <<"\"">> \o FlattenSeq([i \in 1 .. Len(word) |-> IF word[i] \in {"\"", "\\"} THEN <<"\\", word[i]>> ELSE <<word[i]>>]) \o <<"\"">>

(* Any words, each in quotes, are split into themselves.                   *)
SplitsRight ==
  LET Words == UNION {[1 .. n -> Characters] : n \in 0 .. MaxLine}
  IN  \A u, v \in Words : Split(<<" ">> \o Quoted(u) \o <<" ", " ">> \o Quoted(v)) = <<u, v>>

(* What a tool is given, in the order of its parameters. *)
Arguments ==
  LET keys == SelectSeq(tool.keys, LAMBDA k : k # "action" /\ k \in DOMAIN invocation.args)
  IN  FlattenSeq([i \in 1 .. Len(keys) |-> invocation.args[keys[i]].words])

(* Every word a user typed reaches the tool once, in the order typed, with *)
(* the options as the schema writes them; only a first word that names the *)
(* action is none of the arguments.  That is so for words without a name:  *)
(* see the README for those.                                               *)
WordsKept ==
  invocation.at = "ran" /\ invocation.by = "user" /\ tool.keys # <<>> /\ (\A i \in 1 .. Len(invocation.words) : invocation.words[i].name = None) =>
    LET words == invocation.words
        named == words # <<>> /\ "action" \in DOMAIN invocation.args /\ Heard(words[1]) = Lower[invocation.args["action"].words[1].text]
        given == IF named THEN Tail(words) ELSE words
    IN  /\ [i \in 1 .. Len(Arguments) |-> Heard(Arguments[i])] = [i \in 1 .. Len(given) |-> Heard(given[i])]
        /\ words # <<>> /\ Heard(words[1]) \in Actions => named

(* A tool runs with an action it has, all that this needs and nothing it   *)
(* has no use for, whoever called it (ParameterValidator.ts:413-518).      *)
ActionsComplete ==
  invocation.at = "ran" =>
    LET args == invocation.args
        action == IF "action" \in DOMAIN args THEN args["action"].words[1].text ELSE None
    IN  /\ tool.required \subseteq DOMAIN args
        /\ action \in DOMAIN tool.needs => tool.needs[action] \subseteq DOMAIN args
        /\ action # None /\ tool.grammar # Nothing => DOMAIN args \in {ks \cup {"action"} : ks \in SUBSET ToSet(tool.grammar[action].args)}

(* What a user types is what the tool does. *)
CommandsTrue == SplitsRight /\ WordsKept /\ ActionsComplete
=============================================================================
