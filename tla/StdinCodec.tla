----------------------------- MODULE StdinCodec -----------------------------
(***************************************************************************)
(* stdin-encoder.ts: the arguments of a task become one line of text, and  *)
(* xresloader cuts the line into arguments again.  Its tokenizer has no    *)
(* escapes, so some tokens have no encoding: runShard (run.ts) skips a     *)
(* task with one and counts it as failed.                                  *)
(*                                                                         *)
(* A character is a letter, one of the two quotes, a space, a space that   *)
(* only JavaScript takes for one, or the end of a line.                    *)
(***************************************************************************)
EXTENDS Naturals, Sequences, SequencesExt

CONSTANTS
    Letters, \* the characters nothing looks for
    Argvs    \* the argument lists that are tried

Single == "single"
Double == "double"
Quotes == {Single, Double}
Space == "space"
WideSpace == "wide"
LineEnd == "end"

Chars == Letters \cup Quotes \cup {Space, WideSpace, LineEnd}

ASSUME CodecAssumption == Argvs \subseteq Seq(Seq(Chars))

VARIABLES
    argv,   \* the arguments of the task
    way,    \* none, line or skipped
    line,   \* what the tokenizer has not read yet
    tokens  \* the arguments the JAR has got

codecVars == <<argv, way, line, tokens>>

CodecTypeOK ==
    /\ argv \in Argvs
    /\ way \in {"none", "line", "skipped"}
    /\ line \in Seq(Chars)
    /\ tokens \in Seq(Seq(Chars))

CodecInit ==
    /\ argv \in Argvs
    /\ way = "none" /\ line = <<>> /\ tokens = <<>>

-----------------------------------------------------------------------------

Has(token, chars) == \E k \in DOMAIN token : token[k] \in chars

\* encodeToken throws for the others.
Encodable(token) == token # <<>> /\ ~Has(token, {LineEnd}) /\ ~(Quotes \subseteq ToSet(token))

\* Mutant: one kind of quotes for every token.
EncodeToken_DoubleOnly(token) ==
    IF Has(token, {Single, Double, Space, WideSpace})
    THEN <<Double>> \o token \o <<Double>> ELSE token

EncodeToken(token) ==
    IF Has(token, {Double}) THEN <<Single>> \o token \o <<Single>>
    ELSE IF Has(token, {Single, Space, WideSpace}) THEN <<Double>> \o token \o <<Double>>
    ELSE token

EncodeTaskLine(args) ==
    FlattenSeq([k \in DOMAIN args |->
                   IF k = 1 THEN EncodeToken(args[k]) ELSE <<Space>> \o EncodeToken(args[k])])

\* A task is written to the JVM if every argument can be encoded.
EncodeTask ==
    /\ way = "none"
    /\ IF \A k \in DOMAIN argv : Encodable(argv[k])
       THEN way' = "line" /\ line' = EncodeTaskLine(argv)
       ELSE way' = "skipped" /\ UNCHANGED line
    /\ UNCHANGED <<argv, tokens>>

-----------------------------------------------------------------------------
(* tokenizeStdinLine, the tokenizer of xresloader. *)

\* The places where a text that starts with a quote is closed by the same one.
Closings(text) == {k \in 2..Len(text) : text[k] = text[1]}

Smallest(S) == CHOOSE k \in S : \A j \in S : k <= j

\* The length of the token at the start of a text that does not start with a
\* space: a quoted text, or what comes before the next space.
TokenLength(text) ==
    IF text[1] \in Quotes /\ Closings(text) # {} THEN Smallest(Closings(text))
    ELSE LET spaces == {k \in DOMAIN text : text[k] = Space}
         IN IF spaces = {} THEN Len(text) ELSE Smallest(spaces) - 1

\* Equal quotes at both ends are taken off.
Stripped(token) ==
    IF token[1] \in Quotes /\ token[Len(token)] = token[1]
    THEN SubSeq(token, 2, Len(token) - 1) ELSE token

SkipSpace ==
    /\ line # <<>> /\ Head(line) = Space
    /\ line' = Tail(line)
    /\ UNCHANGED <<argv, way, tokens>>

\* An empty token is dropped.
TakeToken ==
    /\ line # <<>> /\ Head(line) # Space
    /\ LET n == TokenLength(line)
           token == Stripped(SubSeq(line, 1, n))
       IN /\ line' = SubSeq(line, n + 1, Len(line))
          /\ tokens' = IF token = <<>> THEN tokens ELSE Append(tokens, token)
    /\ UNCHANGED <<argv, way>>

CodecNext == EncodeTask \/ SkipSpace \/ TakeToken

CodecSpec == CodecInit /\ [][CodecNext]_codecVars

-----------------------------------------------------------------------------
\* Properties.

\* The JAR gets the arguments of the task, each whole and none more, whatever
\* quotes and spaces are in them, if it gets the task (stdin-encoder.ts:10).  A
\* task with no exact line is skipped (run.ts:264), although
\* docs/development/configuration-and-conversion.md:30 has it run from argv.
ArgvArrives == way = "line" /\ line = <<>> => tokens = argv
=============================================================================
