----------------------------- MODULE Expressions -----------------------------
(***************************************************************************)
(* ${{ ... }} in parameters and QEMU arguments (src/internal/expr).  A     *)
(* string is a sequence of parts, each a text or an expression [of, key];  *)
(* what it becomes is a value [type, text], its text a sequence of atoms.  *)
(***************************************************************************)
EXTENDS Naturals, Sequences, SequencesExt

String(text) == [type |-> "string", text |-> text]
Error == [type |-> "error", text |-> <<>>]

\* What the configuration of the machine holds: a string, a number, and
\* nothing under the third name.
VMField(key) ==
  CASE key = 1 -> String(<<<<"vmconfig", 1>>>>)
    [] key = 2 -> [type |-> "number", text |-> <<<<"vmconfig", 2>>>>]
    [] OTHER   -> Error

Parts == [of : {"text", "test.dir", "output.dir", "env", "vmconfig", "steps"},
          key : 1..3]

\* evaluate.  ctx has fields dirs and vmconfig, the set and the truth of what
\* is available, and outputs, a function on step ids.
Evaluate(part, ctx) ==
  CASE part.of \in {"test.dir", "output.dir"} ->
         IF part.of \in ctx.dirs THEN String(<<<<part.of, 0>>>>) ELSE Error
    [] part.of = "env" -> String(<<<<"env", part.key>>>>)
    [] part.of = "vmconfig" ->
         IF ctx.vmconfig THEN VMField(part.key) ELSE Error
    [] part.of = "steps" ->
         IF ~ctx.steps THEN Error
         ELSE IF part.key \in DOMAIN ctx.outputs
              THEN String(ctx.outputs[part.key]) ELSE String(<<>>)
    [] OTHER -> String(<<<<"text", part.key>>>>)

\* resolveString: a string that is one expression becomes its value, of
\* whatever type; otherwise the values are printed into the text.
ResolveString(string, ctx) ==
  LET values == [i \in DOMAIN string |-> Evaluate(string[i], ctx)] IN
  IF Len(string) = 1 THEN values[1]
  ELSE IF \E i \in DOMAIN values : values[i] = Error THEN Error
  ELSE String(FlattenSeq([i \in DOMAIN values |-> values[i].text]))

\* Resolve for a []string, the arguments of QEMU: each must stay a string.
ResolveStrings(strings, ctx) ==
  LET values == [i \in DOMAIN strings |-> ResolveString(strings[i], ctx)] IN
  IF \A i \in DOMAIN values : values[i].type = "string" THEN values
                                                        ELSE <<Error>>
=============================================================================
