------------------------- MODULE GuestAdmissionRate -------------------------
(***************************************************************************)
(* GuestAdmission with a history of the scans that were admitted, in true  *)
(* time, to state what its counters of fixed windows amount to.            *)
(***************************************************************************)
EXTENDS GuestAdmission

VARIABLE admissions

rateVars == <<vars, admissions>>

\* An admitted scan; "no" tells those of one session, digest and second apart.
Admission == [session : Sessions, digest : Digests, at : Nat, no : Nat]

Alike(x, second) ==
  {e \in admissions : e.session = x.session /\ e.digest = x.digest /\ e.at = second}

\* The scans that a step admits: a scan is inserted with its reservation held.
Admitted == {x \in scans' \ scans : x.held}

RateInit == Init /\ admissions = {}

RateNext ==
  /\ Next
  /\ admissions' = admissions \cup
       {[session |-> x.session, digest |-> x.digest, at |-> now,
         no |-> Cardinality(Alike(x, now)) + 1] : x \in Admitted}

RateSpec == RateInit /\ [][RateNext]_rateVars

\* The seconds for which a window lasts by every clock.
Length(w) == w.seconds - 2 * Drift

During(w, from) == {e \in admissions : from <= e.at /\ e.at < from + Length(w)}

\* Admissions are counted in one row of a window, and for a network in one for
\* each key its servers may have.
Rows(w) == IF w.kind = "SESSION" THEN 1 ELSE MaxKeys

MostAdmitted(w) == Rows(w) * (w.limit - 1) + w.limit

\* A fixed window does not bound the rate by its limit.  An interval as long as
\* the window, less the clock error, sees what was counted in the windows that
\* end during it, one admission less than the limit for each row, and the limit
\* once more: for a session less than twice the limit, for a network more than
\* that while its keys are rotated, even if retention removes windows as soon
\* as it may.
RateBounded ==
  \A w \in Windows, from \in 1..Horizon :
    IF w.kind = "SESSION"
    THEN \A s \in Sessions :
           Cardinality({e \in During(w, from) : e.session = s}) <= MostAdmitted(w)
    ELSE \A n \in Networks :
           Cardinality({e \in During(w, from) : e.digest[1] = n}) <= MostAdmitted(w)
=============================================================================
