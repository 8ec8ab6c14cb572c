----------------------------- MODULE PagePosture -----------------------------
(***************************************************************************)
(* What the scanner makes of an HTTP response: its framing                 *)
(* (target/pinned-transport.ts), where it redirects to                     *)
(* (target/safe-http-flow.ts), its security headers                        *)
(* (guest-scanner/headers.ts) and its body as a security.txt               *)
(* (guest-scanner/security-txt.ts).                                        *)
(*                                                                         *)
(* A response has a status, whether its header block is within the limits, *)
(* its headers in order, the length of the body that arrives, whether the  *)
(* message ends as HTTP says, whether the body is text, and its lines.  A  *)
(* header's value and a line are the parts the code splits them into, each *)
(* a name with a number; how they are spelled is left out.                 *)
(***************************************************************************)
EXTENDS Integers, Sequences, FiniteSets

Part(name, arg) == [name |-> name, arg |-> arg]
Header(name, value) == [name |-> name, value |-> value]
Names(parts) == {parts[i].name : i \in 1..Len(parts)}

\* Where a name occurs, and the first part that has it.
Places(parts, name) == {i \in 1..Len(parts) : parts[i].name = name}
First(parts, name) ==
  LET places == Places(parts, name)
  IN parts[CHOOSE i \in places : \A j \in places : i <= j]

\* The value of a header that occurs once and is not empty; << >> otherwise.
Single(response, name) ==
  IF Cardinality(Places(response.headers, name)) = 1
  THEN First(response.headers, name).value ELSE << >>

NoRepeats(parts) == \A i, j \in 1..Len(parts) : parts[i].name = parts[j].name => i = j
-----------------------------------------------------------------------------
\* parseHeaders and declaredLength with what the response callback refuses; a length
\* of -1 is one that is no number.
Lengths(response) == Places(response.headers, "content-length")
Declared(response) == Lengths(response) # {}
DeclaredLength(response) ==
  IF Declared(response) THEN First(response.headers, "content-length").value[1].arg ELSE 0

Framed(response) ==
  /\ Cardinality(Lengths(response)) <= 1 /\ DeclaredLength(response) >= 0
  /\ ~(Declared(response) /\ Places(response.headers, "transfer-encoding") # {})

RedirectStatuses == {301, 302, 303, 307, 308}

\* redirectDecision: a location is its protocol, with 0 for another host, 1 for the
\* target's own and 2 for a location that is no acceptable URL or path.
Redirect(response, protocol) ==
  LET locations == Places(response.headers, "location")
      to == First(response.headers, "location").value[1]
  IN IF response.status \notin RedirectStatuses \/ locations = {} THEN "NONE"
     ELSE IF Cardinality(locations) # 1 \/ to.arg = 2 \/ to.name \notin {"http:", "https:"} THEN "INVALID"
     ELSE IF to.arg = 0 THEN "CROSS_HOST"
     ELSE IF protocol = "https:" /\ to.name = "http:" THEN "DOWNGRADE"
     ELSE "FOLLOW"
RedirectProtocol(response) == First(response.headers, "location").value[1].name
-----------------------------------------------------------------------------
Hsts_present(value) == value # << >>

\* validHsts: no directive twice, and a positive max-age.
Hsts(value) ==
  /\ NoRepeats(value)
  /\ \E i \in 1..Len(value) : value[i].name = "max-age" /\ value[i].arg > 0

Enforcing ==
  {"base-uri", "child-src", "connect-src", "default-src", "font-src", "form-action",
   "frame-ancestors", "frame-src", "img-src", "manifest-src", "media-src", "object-src",
   "sandbox", "script-src", "script-src-attr", "script-src-elem", "style-src",
   "style-src-attr", "style-src-elem", "upgrade-insecure-requests", "worker-src"}

\* cspDirectives: the names of a policy without repeats.
Csp(value) == IF NoRepeats(value) THEN Names(value) ELSE {}

\* validPermissionsPolicy: every feature once, none granted to all (arg 1).
Permissions(value) ==
  value # << >> /\ NoRepeats(value) /\ \A i \in 1..Len(value) : value[i].arg = 0

SafeReferrers ==
  {"no-referrer", "origin", "origin-when-cross-origin", "same-origin", "strict-origin",
   "strict-origin-when-cross-origin"}

\* inspectGuestSecurityHeaders: the checks a response passes.
HeadersPassed(response) ==
  LET csp == Csp(Single(response, "content-security-policy"))
      referrer == Single(response, "referrer-policy")
      holds == [
        HTTP_HSTS |-> Hsts(Single(response, "strict-transport-security")),
        HTTP_CSP |-> csp \cap Enforcing # {},
        HTTP_X_CONTENT_TYPE_OPTIONS |->
          Single(response, "x-content-type-options") = <<Part("nosniff", 0)>>,
        HTTP_FRAME_PROTECTION |->
          \/ Single(response, "x-frame-options") \in {<<Part("deny", 0)>>, <<Part("sameorigin", 0)>>}
          \/ "frame-ancestors" \in csp,
        HTTP_REFERRER_POLICY |->
          referrer # << >> /\ referrer[Len(referrer)].name \in SafeReferrers,
        HTTP_PERMISSIONS_POLICY |-> Permissions(Single(response, "permissions-policy"))]
  IN {check \in DOMAIN holds : holds[check]}
-----------------------------------------------------------------------------
\* A line of security.txt is acceptable: a contact or canonical that is a URI of the
\* right kind (arg 0 or 1), an expiry later than now, a field the code does not know.
LineAccepted(line, now) ==
  CASE line.name = "broken" -> FALSE
    [] line.name \in {"contact", "canonical"} -> line.arg >= 0
    [] line.name = "expires" -> line.arg > now
    [] OTHER -> TRUE

LinesAccepted_anyExpiry(lines, now) ==
  \A i \in 1..Len(lines) : lines[i].name = "expires" \/ LineAccepted(lines[i], now)

LinesAccepted(lines, now) == \A i \in 1..Len(lines) : LineAccepted(lines[i], now)

\* parseBody: a contact, one expiry, and among the canonical lines, if there are any,
\* one that is this file (arg 1).
SecurityTxtBody(lines, now) ==
  /\ LinesAccepted(lines, now)
  /\ "contact" \in Names(lines)
  /\ Cardinality(Places(lines, "expires")) = 1
  /\ "canonical" \in Names(lines) => Part("canonical", 1) \in {lines[i] : i \in 1..Len(lines)}

\* inspectGuestSecurityTxt
SecurityTxtPasses(response, now) ==
  /\ response.status = 200
  /\ Single(response, "content-type") = <<Part("text/plain", 0), Part("utf-8", 0)>>
  /\ response.body > 0 /\ response.text
  /\ SecurityTxtBody(response.lines, now)
=============================================================================
