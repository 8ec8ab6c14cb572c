----------------------------- MODULE MCScannerRun -----------------------------
(***************************************************************************)
(* A target with one public address of each family, which DNS may answer   *)
(* with alone, with a private address, late or not at all; a peer that     *)
(* answers, redirects, breaks off, or lies about its length; and policies  *)
(* whose budget of requests, redirects or bytes runs out on the way.       *)
(***************************************************************************)
EXTENDS ScannerRun

CONSTANTS a4, a6, private4

MCAddresses == {a4, a6, private4}
MCFamily == [a \in MCAddresses |-> IF a = a6 THEN 6 ELSE 4]

Data4(as, ttl) == [kind |-> "DATA", wellFormed |-> TRUE, addresses |-> as, ttl |-> ttl]
MCAnswers ==
  [f \in {4, 6} |->
     IF f = 4
     THEN {Data4({a4}, 9), Data4({a4}, 1), Data4({a4, private4}, 9), Empty("NO_DATA"), Empty("FAILED")}
     ELSE {Data4({a6}, 9), Empty("NO_DATA"), Empty("NOT_FOUND"), [Data4({}, 0) EXCEPT !.wellFormed = FALSE]}]

MCPolicy(requests, redirects, total) ==
  [capabilities |-> {"DNS_READ", "HTTP_GET_HEAD"}, duration |-> 3, requests |-> requests, redirects |-> redirects,
   response |-> 2, total |-> total]
MCCeiling == [duration |-> 4, requests |-> 9, redirects |-> 1, response |-> 4, total |-> 8]
MCPolicies ==
  {MCPolicy(9, 1, 2), MCPolicy(7, 0, 2), MCPolicy(10, 1, 1),
   [MCPolicy(9, 1, 2) EXCEPT !.capabilities = {"DNS_READ", "NUCLEI_SAFE_HTTP"}]}

Page(status, headers, body) ==
  [status |-> status, head |-> TRUE, headers |-> headers, body |-> body, complete |-> TRUE,
   text |-> TRUE, lines |-> << >>]
LengthIs(n) == Header("content-length", <<Part("", n)>>)
LocationIs(protocol, host) == Header("location", <<Part(protocol, host)>>)
Good ==
  <<Header("strict-transport-security", <<Part("max-age", 9), Part("includesubdomains", 0)>>),
    Header("content-security-policy", <<Part("frame-ancestors", 0)>>),
    Header("content-type", <<Part("text/plain", 0), Part("utf-8", 0)>>), LengthIs(1)>>
Doubtful ==
  <<Header("strict-transport-security", <<Part("max-age", 0)>>),
    Header("x-frame-options", <<Part("deny", 0)>>), Header("x-frame-options", <<Part("deny", 0)>>),
    Header("referrer-policy", <<Part("origin", 0), Part("unsafe-url", 0)>>)>>
Lines == <<Part("contact", 0), Part("expires", 6), Part("canonical", 1)>>
MCResponses ==
  {[Page(200, Good, 1) EXCEPT !.lines = Lines],
   Page(200, Doubtful, 2),
   Page(200, << >>, 3),
   [Page(200, <<LengthIs(2)>>, 1) EXCEPT !.complete = FALSE],
   Page(200, <<LengthIs(2)>>, 1),
   Page(302, <<LocationIs("https:", 1)>>, 1),
   Page(302, <<LocationIs("http:", 1)>>, 0),
   Page(301, <<LocationIs("http:", 0)>>, 0)}

MCFinding(n, evidence) == [fingerprint |-> "X", evidence |-> evidence, place |-> n]
MCDocument(findings, status, completeness) ==
  [readable |-> TRUE, hostname |-> "target", padding |-> 1,
   observations |-> Once({[id |-> "TLS_CERTIFICATE", outcome |-> "NOT_APPLICABLE"]}),
   findings |-> findings,
   coverage |-> Once({[id |-> "CT_ENRICHMENT", status |-> status, completeness |-> completeness]}),
   warnings |-> Once({}), duration |-> 0, requests |-> MaxRequests]
MCOtherDocuments ==
  {MCDocument({}, status, completeness) :
     status \in {"SUCCESS", "TIMED_OUT"}, completeness \in Completenesses}
  \cup {MCDocument({MCFinding(n, evidence) : n \in 1..count}, "SUCCESS", "COMPLETE") :
          evidence \in {1, 5}, count \in {2, 8, 9}}
  \cup {MCDocument({MCFinding(1, MaxEvidence + 1)}, "SUCCESS", "COMPLETE")}
  \cup {[MCDocument({}, "SUCCESS", "COMPLETE") EXCEPT !.coverage.repeated = TRUE],
        [MCDocument({}, "SUCCESS", "COMPLETE") EXCEPT !.duration = MaxDuration + 1],
        [MCDocument({}, "SUCCESS", "COMPLETE") EXCEPT !.readable = FALSE]}
  \cup {[MCDocument({}, "SUCCESS", "COMPLETE") EXCEPT !.hostname = host] : host \in {"other", "malformed"}}
=============================================================================
