-------------------------- MODULE ResolutionContract --------------------------
(***************************************************************************)
(* What DeterministicResolutionPipeline.resolve promises: resolvers are    *)
(* asked one at a time and in order, the next one only after all before it *)
(* have declined, the fallback only after all resolvers have, and the      *)
(* first answer that is not a decline is the result.                       *)
(***************************************************************************)
EXTENDS Naturals

CONSTANTS
  Resolutions,   \* the calls of resolve()
  Resolvers,     \* Resolvers[r]: how many resolvers the pipeline of r has
  HasFallback    \* HasFallback[r]: BOOLEAN

VARIABLES
  asked,         \* asked[r]: how many resolvers, then the fallback, were asked
  last,          \* last[r]: the answer of the one asked last, or "none"
  verdict        \* verdict[r]: "open" or one of Verdicts

vars == <<asked, last, verdict>>

\* A ResolutionResult with one of the three statuses, with a member of another
\* Enum or with something else for a status, an exception, a value of another
\* type, a BaseException.
AnswerKinds ==
  {"handled", "not_handled", "error", "foreign", "malformed", "exception", "invalid", "base"}

Verdicts == {"handled", "not_handled", "error", "foreign", "raised"}

Init ==
  /\ asked = [r \in Resolutions |-> 0]
  /\ last = [r \in Resolutions |-> "none"]
  /\ verdict = [r \in Resolutions |-> "open"]

Askable(r) == Resolvers[r] + (IF HasFallback[r] THEN 1 ELSE 0)

Ask(r) ==
  /\ verdict[r] = "open"
  /\ asked[r] = 0 \/ last[r] = "not_handled"
  /\ asked[r] < Askable(r)
  /\ asked' = [asked EXCEPT ![r] = @ + 1]
  /\ last' = [last EXCEPT ![r] = "none"]
  /\ UNCHANGED verdict

Answer(r, a) ==
  /\ verdict[r] = "open" /\ asked[r] > 0 /\ last[r] = "none"
  /\ last' = [last EXCEPT ![r] = a]
  /\ UNCHANGED <<asked, verdict>>

\* NOT_HANDLED needs every decline there is; a failure, by an exception or a
\* value of another type, is an ERROR; resolve raises only for a BaseException
\* or for a status without .value; one of another Enum is returned.
Justified(r, v) ==
  \/ v = "handled" /\ last[r] = "handled"
  \/ v = "error" /\ last[r] \in {"error", "exception", "invalid"}
  \/ v = "foreign" /\ last[r] = "foreign"
  \/ v = "raised" /\ last[r] \in {"base", "malformed"}
  \/ v = "not_handled" /\ asked[r] = Askable(r) /\ (asked[r] = 0 \/ last[r] = "not_handled")

Conclude(r, v) ==
  /\ verdict[r] = "open"
  /\ Justified(r, v)
  /\ verdict' = [verdict EXCEPT ![r] = v]
  /\ UNCHANGED <<asked, last>>

Next ==
  \E r \in Resolutions :
    \/ Ask(r)
    \/ \E a \in AnswerKinds : Answer(r, a)
    \/ \E v \in Verdicts : Conclude(r, v)

Spec == Init /\ [][Next]_vars
=============================================================================
