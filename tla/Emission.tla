------------------------------ MODULE Emission ------------------------------
(***************************************************************************)
(* What becomes of the statements of a script on their way to the text of  *)
(* another dialect.  convertTo (the WebAssembly binding) converts them,    *)
(* leaves out those without a counterpart, and emits the rest with one     *)
(* emitter until one fails.  Other callers emit statement after statement  *)
(* whatever happens (each) or a whole batch at once, with an emitter that  *)
(* may have failed before.  What the conversion makes of a statement and   *)
(* what an emitter writes for it are constants: Translate fills them in.   *)
(***************************************************************************)
EXTENDS SqlText

CONSTANTS
  Jobs,            \* scripts from the parser, followed by statements in common SQL,
                   \* with a dialect and the calls made of its emitter
  Converted(_),    \* a statement in common SQL: <<it>>, or <<>> if it has no counterpart
  TextOf(_, _)     \* what the emitter of a dialect writes for a statement

(* The statements a job may have to emit.                                  *)
Counterparts(j) ==
  Range(j.common) \cup {Converted(s)[1] : s \in {r \in Range(j.stmts) : Converted(r) # <<>>}}

ASSUME JobsAssumption ==
  \A j \in Jobs :
    /\ j.stmts \in Seq(Range(j.stmts)) /\ j.common \in Seq(Range(j.common))
    /\ j.calls \in Seq({"convertTo", "each", "batch"}) /\ j.calls # <<>>
    /\ \A s \in Range(j.stmts) : Converted(s) = <<>> \/ Converted(s) = <<Converted(s)[1]>>
    /\ \A n \in Counterparts(j) : TextOf(j.dialect, n) \in Seq(STRING)

VARIABLES
  job,       \* the job
  read,      \* how many of its statements were converted
  stmts,     \* the statements that have a counterpart
  calls,     \* the calls still to be made, the current one first
  emitted,   \* how many statements the current call has emitted
  buffer,    \* the emitter's buffer
  results,   \* what every call of the emitter returned
  phase      \* "convert", "emit", or how the job ended

vars == <<job, read, stmts, calls, emitted, buffer, results, phase>>

(* A tuple, for TLC to write every statement once.                         *)
Texts == <<>> \o [k \in DOMAIN stmts |-> TextOf(job.dialect, stmts[k])]
Batch(texts) ==
  FlattenSeq([k \in DOMAIN texts |-> IF k = 1 THEN texts[k] ELSE <<"Semicolon">> \o texts[k]])

------------------------------------------------------------------------------
Init ==
  /\ job \in Jobs
  /\ read = 0 /\ stmts = job.common /\ calls = job.calls /\ emitted = 0
  /\ buffer = <<>> /\ results = <<>> /\ phase = "convert"

ConvertNext ==
  /\ phase = "convert" /\ read < Len(job.stmts)
  /\ read' = read + 1
  /\ stmts' = stmts \o Converted(job.stmts[read'])
  /\ UNCHANGED <<job, calls, emitted, buffer, results, phase>>
ConvertDone ==
  /\ phase = "convert" /\ read = Len(job.stmts)
  /\ phase' = IF stmts = <<>> /\ job.stmts # <<>> THEN "unsupported" ELSE "emit"
  /\ UNCHANGED <<job, read, stmts, calls, emitted, buffer, results>>

(* The emitters for SQLite and PostgreSQL write into a buffer that lasts   *)
(* from call to call; an error leaves in it what was written.              *)
Reset(b) == <<>>
Return(b, t) ==
  IF job.dialect = "MySQL" THEN [buffer |-> b, text |-> IF Failed(t) THEN <<"Error">> ELSE t]
  ELSE LET w == b \o t
       IN IF Failed(w) THEN [buffer |-> Written(w), text |-> <<"Error">>]
          ELSE [buffer |-> <<>>, text |-> w]
(* Mutant: emit forgets to reset the buffer.                               *)
EmitCallWithoutReset(t) == Return(buffer, t)
EmitCall(t) == Return(Reset(buffer), t)

Emit ==
  /\ phase = "emit" /\ calls # <<>> /\ calls[1] # "batch" /\ emitted < Len(stmts)
  /\ \E text \in {TextOf(job.dialect, stmts[emitted + 1])} : LET r == EmitCall(text)
     IN /\ buffer' = r.buffer
        /\ results' = Append(results, [of |-> emitted + 1, text |-> r.text])
        /\ phase' = IF Failed(r.text) /\ calls[1] = "convertTo" THEN "error" ELSE phase
  /\ emitted' = emitted + 1
  /\ UNCHANGED <<job, read, stmts, calls>>
EmitBatch ==
  /\ phase = "emit" /\ calls # <<>> /\ calls[1] = "batch" /\ emitted = 0 /\ stmts # <<>>
  /\ \E texts \in {Texts} : LET r == EmitCall(Batch(texts))
     IN /\ buffer' = r.buffer
        /\ results' = Append(results, [of |-> 0, text |-> r.text])
  /\ emitted' = Len(stmts)
  /\ UNCHANGED <<job, read, stmts, calls, phase>>
CallDone ==
  /\ phase = "emit" /\ emitted = Len(stmts)
  /\ calls' = Tail(calls) /\ emitted' = 0
  /\ phase' = IF Len(calls) = 1 THEN "ok" ELSE phase
  /\ UNCHANGED <<job, read, stmts, buffer, results>>

Next == ConvertNext \/ ConvertDone \/ Emit \/ EmitBatch \/ CallDone
Spec == Init /\ [][Next]_vars

------------------------------------------------------------------------------
(* The counters stay within the script, and a buffer never holds more than *)
(* a text that failed.                                                     *)
EmissionOK ==
  /\ read \in 0 .. Len(job.stmts) /\ emitted \in 0 .. Len(stmts)
  /\ ~Failed(buffer) /\ (buffer # <<>> => Failed(results[Len(results)].text))
  /\ phase \in {"convert", "emit", "ok", "error", "unsupported"}

(* What an emitter returns depends on its argument alone, never on what it *)
(* was asked before or on how that ended; a batch is the texts of its      *)
(* statements in order; and convertTo ends at the first error, else with   *)
(* the text of every statement that has a counterpart.                     *)
Alone(t) == IF Failed(t) THEN <<"Error">> ELSE t
EachTextIsItsOwn ==
  /\ \A texts \in {Texts}, i \in DOMAIN results :
       results[i].text = Alone(IF results[i].of = 0 THEN Batch(texts) ELSE texts[results[i].of])
  /\ job.calls = <<"convertTo">> =>
       /\ \A i \in DOMAIN results : results[i].of = i
       /\ phase = "ok" => Len(results) = Len(stmts) /\ \A i \in DOMAIN results : ~Failed(results[i].text)
       /\ phase = "error" => \A i \in DOMAIN results : Failed(results[i].text) <=> i = Len(results)
=============================================================================
