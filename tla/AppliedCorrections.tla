-------------------------- MODULE AppliedCorrections --------------------------
(***************************************************************************)
(* What the financial correction tools promise, without their steps: a     *)
(* correction takes effect at once, on exactly the source accounting that  *)
(* an agent other than its executor has reviewed and passed, and uses that *)
(* review up.                                                              *)
(***************************************************************************)
EXTENDS Naturals, Sequences

CONSTANTS Agent, Review, None

VARIABLES
  source,   \* the version of the loan's payments, waivers, terms and journal
  reviews,  \* financial_correction_agent_reviews, in the order of reviewedAt
  runs      \* the correction runs recorded

vars == <<source, reviews, runs>>

\* Any payment, waiver, change of terms or correction makes a new version.
SourceChanges == source' = source + 1

Init == source = 0 /\ reviews = <<>> /\ runs = {}

Change == SourceChanges /\ UNCHANGED <<reviews, runs>>

Record ==
  /\ \E r \in Review : /\ r.consumedBy = None
                      /\ r.plan.version <= source
                      /\ reviews' = Append(reviews, r)
  /\ UNCHANGED <<source, runs>>

Correct ==
  \E i \in DOMAIN reviews, a \in Agent :
    LET r == reviews[i]
        run == [plan |-> r.plan, review |-> i, executor |-> a]
    IN /\ r.plan.version = source
       /\ r.verdict = "pass" /\ r.consumedBy = None /\ r.reviewer # a
       /\ \A done \in runs : done.plan # r.plan
       /\ SourceChanges
       /\ reviews' = [reviews EXCEPT ![i].consumedBy = a]
       /\ runs' = runs \cup {run}

Next == Change \/ Record \/ Correct

Spec == Init /\ [][Next]_vars
=============================================================================
