------------------------------ MODULE ResultPath ------------------------------
(***************************************************************************)
(* The way of a scanner's document to the guest's browser, as functions:   *)
(* the supervisor projects what it read from the scanner                   *)
(* (scanner-output), the store keeps the projection and checks it again on *)
(* the way out (guest-result/view.ts), and the route rebuilds the body it  *)
(* was given and sends it only if it is the same                           *)
(* (guest-http/result-projection.ts).                                      *)
(*                                                                         *)
(* A list of a document is the set of its entries and whether one of them  *)
(* is repeated; the order of lists, which each stage makes its own, is     *)
(* abstracted.  Bytes that are no JSON, or repeat a key, are a document    *)
(* that is not readable.  The length of a document is what its findings'   *)
(* evidence takes and what its JSON has to spare (padding); the rest is    *)
(* left out on both sides of every comparison.  A digest is the document   *)
(* itself, a MAC its key.  The times of access are those of GuestService.  *)
(***************************************************************************)
EXTENDS Sums

CONSTANTS
  MaxBytes,     \* max_output_bytes of the run
  MaxDuration,  \* 30 seconds
  MaxRequests,  \* 40
  MaxFindings,  \* 256
  MaxWarnings,  \* 32
  MaxEvidence,  \* MAX_EVIDENCE_BYTES of one finding
  Redaction,    \* length of GUEST_EVIDENCE_REDACTION
  Lifetime,     \* GUEST_RESULT_ENVELOPE_LIFETIME_SECONDS
  MaxLifetime,  \* RESULT_ENVELOPE_MAX_LIFETIME_SECONDS
  MaxSkew,      \* RESULT_ENVELOPE_MAX_CLOCK_SKEW_SECONDS
  SigningKey,   \* the key version the supervisor signs with
  Keyring       \* the versions the committer verifies with

ASSUME ResultPathAssumption ==
  {MaxBytes, MaxDuration, MaxRequests, MaxFindings, MaxWarnings, MaxEvidence, Redaction,
   Lifetime, MaxLifetime, MaxSkew} \subseteq Nat

HeaderChecks ==
  {"HTTP_HSTS", "HTTP_CSP", "HTTP_X_CONTENT_TYPE_OPTIONS", "HTTP_FRAME_PROTECTION",
   "HTTP_REFERRER_POLICY", "HTTP_PERMISSIONS_POLICY"}
\* The checks by the section they are shown in; NAMES is the section DOMAIN.
SectionChecks ==
  [INFRASTRUCTURE |-> {"DNS_AAAA_PRESENT", "INFRA_RPKI"},
   NAMES |-> {"DNS_DNSSEC", "DNS_CAA", "SECURITY_TXT"},
   MAIL |-> {"MAIL_SPF", "MAIL_DMARC", "MAIL_MTA_STS", "MAIL_TLS_RPT"},
   TLS |-> {"TLS_CERTIFICATE"},
   WEB |-> HeaderChecks \cup {"HTTP_PROTOCOL"}]
Sections == DOMAIN SectionChecks
Checks == UNION {SectionChecks[s] : s \in Sections}
Unavailable ==
  {"MAIL_SECURITY_POSTURE", "PUBLIC_INFRASTRUCTURE", "RDAP_ENRICHMENT", "CT_ENRICHMENT"}
Groups ==
  {"TARGET_RESOLUTION", "DNS_DOMAIN_POSTURE", "TLS_CERTIFICATE_POSTURE",
   "HTTP_SECURITY_POSTURE"} \cup Unavailable
Outcomes == {"PASS", "ATTENTION", "UNKNOWN", "NOT_APPLICABLE"}
Statuses == {"SUCCESS", "FAILED", "TIMED_OUT", "CANCELLED", "SUPERSEDED"}
Completenesses == {"COMPLETE", "PARTIAL", "NOT_APPLICABLE", "UNKNOWN"}

DocumentFields ==
  {"readable", "hostname", "padding", "observations", "findings", "coverage", "warnings",
   "duration", "requests"}
FindingFields == {"fingerprint", "evidence", "place"}
Once(entries) == [entries |-> entries, repeated |-> FALSE]
Refused == [ok |-> FALSE]
-----------------------------------------------------------------------------
\* At most one entry for an identifier, and each of them known.
Distinct(list) ==
  ~list.repeated /\ \A e, f \in list.entries : e.id = f.id => e = f
ById(entries) == [i \in {e.id : e \in entries} |-> CHOOSE e \in entries : e.id = i]

Observed(list) == Distinct(list) /\ \A e \in list.entries : e.id \in Checks /\ e.outcome \in Outcomes
CoveredList(list) ==
  /\ list.entries # {} /\ Distinct(list)
  /\ \A e \in list.entries :
       e.id \in Groups /\ e.status \in Statuses /\ e.completeness \in Completenesses

\* Findings may repeat a fingerprint, which counts once; place tells such entries apart.
FindingCount(findings) == Cardinality({f.fingerprint : f \in findings})

Size(doc) ==
  LET evidence == [f \in doc.findings |-> f.evidence]
  IN doc.padding + Sum(evidence, doc.findings)

Acceptable(doc) ==
  /\ doc.readable /\ Size(doc) <= MaxBytes
  /\ Observed(doc.observations) /\ CoveredList(doc.coverage)
  /\ Cardinality(doc.findings) <= MaxFindings
  /\ \A f \in doc.findings : f.evidence <= MaxEvidence
  /\ Distinct(doc.warnings) /\ Cardinality(doc.warnings.entries) <= MaxWarnings
  /\ doc.hostname # "malformed"
  /\ doc.duration \in 0..MaxDuration /\ doc.requests \in 0..MaxRequests

\* projectGuestScannerOutput
Project(doc) ==
  IF ~Acceptable(doc) THEN Refused
  ELSE LET observed == ById(doc.observations.entries) IN
       [ok |-> TRUE, hostname |-> doc.hostname,
        posture |-> [c \in DOMAIN observed |-> observed[c].outcome], risks |-> FindingCount(doc.findings),
        coverage |-> ById(doc.coverage.entries),
        warnings |-> Cardinality(doc.warnings.entries),
        duration |-> doc.duration, requests |-> doc.requests]

\* The document written again: evidence is replaced, nothing is left to spare.
Canonical(doc) ==
  [doc EXCEPT !.padding = 0, !.findings = {[f EXCEPT !.evidence = Redaction] : f \in doc.findings}]

\* produceCanonicalGuestScannerResult: the canonical form must fit as well.
Produce(doc) ==
  LET projection == Project(doc)
      payload == Canonical(doc)
  IN IF projection.ok /\ Size(payload) <= MaxBytes
     THEN [ok |-> TRUE, payload |-> payload, projection |-> projection]
     ELSE Refused
-----------------------------------------------------------------------------
\* signResultEnvelope, for the document of a run the supervisor accepts.
Sign(payload, now) ==
  [payload |-> payload, digest |-> payload, size |-> Size(payload), key |-> SigningKey,
   issued |-> now, expires |-> now + Lifetime]

Current_noSkew(envelope, now) == envelope.issued <= now /\ now < envelope.expires

Current(envelope, now) ==
  envelope.issued <= now + MaxSkew /\ now < envelope.expires

\* verifyAuthenticatedResultEnvelope
Verified(envelope, now) ==
  /\ envelope.size <= MaxBytes
  /\ envelope.expires - envelope.issued \in 1..MaxLifetime
  /\ Current(envelope, now)
  /\ envelope.key \in Keyring
  /\ Size(envelope.payload) = envelope.size /\ envelope.digest = envelope.payload

\* The committer makes the canonical form of what it was given once more, and stores
\* the projection of a document that is its own canonical form.
Commit(envelope, now) ==
  LET again == Produce(envelope.payload) IN
  IF /\ Verified(envelope, now) /\ again.ok
     /\ again.payload = envelope.digest /\ Size(again.payload) = envelope.size
  THEN again.projection ELSE Refused
-----------------------------------------------------------------------------
\* snapshotSanitizedGuestProjection, in the store's way out and in the view.
Sanitized(p) ==
  /\ p.ok /\ p.hostname # "malformed"
  /\ DOMAIN p.posture \subseteq Checks /\ \A c \in DOMAIN p.posture : p.posture[c] \in Outcomes
  /\ DOMAIN p.coverage # {} /\ DOMAIN p.coverage \subseteq Groups
  /\ \A g \in DOMAIN p.coverage :
       p.coverage[g].status \in Statuses /\ p.coverage[g].completeness \in Completenesses
  /\ p.risks \in 0..MaxFindings /\ p.warnings \in 0..MaxWarnings
  /\ p.duration \in 0..MaxDuration /\ p.requests \in 0..MaxRequests

\* publicCoverageState
PublicState(item) ==
  IF item.completeness = "NOT_APPLICABLE" THEN "NOT_APPLICABLE"
  ELSE IF item.status # "SUCCESS" THEN "UNAVAILABLE"
  ELSE item.completeness

Summary(groups) ==
  IF \A g \in Groups : groups[g] \in {"COMPLETE", "NOT_APPLICABLE"} THEN "COMPLETE"
  ELSE IF \E g \in Groups : groups[g] \in {"COMPLETE", "PARTIAL"} THEN "PARTIAL"
  ELSE "INSUFFICIENT"

\* createGuestResultView: the checks reported, by section, and the state of every group.
View(p) ==
  IF ~Sanitized(p) THEN Refused
  ELSE LET groups == [g \in Groups |->
             IF g \in DOMAIN p.coverage THEN PublicState(p.coverage[g]) ELSE "MISSING"]
       IN [ok |-> TRUE, hostname |-> p.hostname, risks |-> p.risks, warnings |-> p.warnings,
           sections |-> [s \in Sections |->
             {[id |-> c, outcome |-> p.posture[c]] : c \in SectionChecks[s] \cap DOMAIN p.posture}],
           groups |-> groups, state |-> Summary(groups),
           complete |-> Cardinality({g \in Groups : groups[g] = "COMPLETE"})]

Restored_verbatim(state) == [status |-> "SUCCESS", completeness |-> state]

\* A group's state turned back into a status and a completeness.
Restored(state) ==
  IF state = "UNAVAILABLE" THEN [status |-> "FAILED", completeness |-> "UNKNOWN"]
  ELSE [status |-> "SUCCESS", completeness |-> state]

\* projectGuestResultDecision: the body is rebuilt and sent only if it is the same.
Sent(view) ==
  LET covered == {g \in Groups : view.groups[g] # "MISSING"}
      rebuilt == View(
        [ok |-> TRUE, hostname |-> view.hostname, risks |-> view.risks,
         warnings |-> view.warnings, duration |-> 0, requests |-> 0,
         posture |-> [c \in {e.id : e \in UNION {view.sections[s] : s \in Sections}} |->
           (CHOOSE e \in UNION {view.sections[s] : s \in Sections} : e.id = c).outcome],
         coverage |-> [g \in covered |-> Restored(view.groups[g])]])
  IN IF view.ok /\ rebuilt.ok /\ rebuilt = view THEN view ELSE Refused
=============================================================================
