----------------------------- MODULE TargetPolicy -----------------------------
(***************************************************************************)
(* Which addresses the scanner may connect to: the policy on addresses     *)
(* (target/ip-policy.ts), what a pair of DNS answers resolves to           *)
(* (target/resolver.ts) and what a request pinned to one address of a      *)
(* resolution is refused for (target/pinned-request.ts).  An address is a  *)
(* value with a family; a range is the set of its addresses, so parsing    *)
(* and formatting of addresses are left out.                               *)
(***************************************************************************)
EXTENDS Integers, FiniteSets

CONSTANTS
  Addresses, Family,  \* a family, 4 or 6, for every address
  BuiltIn,            \* addresses of the built-in ranges
  Internal,           \* addresses of the configured internal ranges
  GlobalUnicast,      \* addresses in 2000::/3
  MaxAddresses        \* MAX_RESOLVED_ADDRESSES

ASSUME TargetAssumption ==
  /\ Family \in [Addresses -> {4, 6}]
  /\ BuiltIn \cup Internal \cup GlobalUnicast \subseteq Addresses
  /\ MaxAddresses \in Nat \ {0}

\* blockReason is null.
Public(a) ==
  /\ a \notin BuiltIn \cup Internal
  /\ Family[a] = 6 => a \in GlobalUnicast

Classified_anyPublic(as) == as # {} /\ Cardinality(as) <= MaxAddresses /\ \E a \in as : Public(a)

\* classifyResolvedAddressSet: one forbidden address refuses all of them.
Classified(as) ==
  /\ as # {} /\ Cardinality(as) <= MaxAddresses
  /\ \A a \in as : Public(a)

\* An answer to one query: its kind, and for data whether it is well-formed, the
\* addresses and their least time to live.
Empty(kind) == [kind |-> kind, wellFormed |-> TRUE, addresses |-> {}, ttl |-> 0]

LeastTtl(r4, r6) ==
  IF r4.addresses = {} \/ (r6.addresses # {} /\ r6.ttl < r4.ttl) THEN r6.ttl ELSE r4.ttl

\* resolveAndClassifyHostname, once both queries are settled; asked is the time read
\* before they were sent.
Resolution(r4, r6, asked) ==
  LET kinds == {r4.kind, r6.kind}
      addresses == r4.addresses \cup r6.addresses
      failure(code) == [ok |-> FALSE, code |-> code]
  IN IF "FAILED" \in kinds THEN failure("DNS_LOOKUP_FAILED")
     ELSE IF ~r4.wellFormed \/ ~r6.wellFormed THEN failure("INVALID_DNS_RESPONSE")
     ELSE IF "NOT_FOUND" \in kinds
     THEN failure(IF addresses # {} THEN "INCONSISTENT_DNS_RESPONSE" ELSE "HOST_NOT_FOUND")
     ELSE IF addresses = {} THEN failure("NO_ADDRESS_RECORDS")
     ELSE IF ~Classified(addresses) THEN failure("DESTINATION_POLICY_REJECTED")
     ELSE [ok |-> TRUE, addresses |-> addresses, resolved |-> asked,
           expires |-> asked + LeastTtl(r4, r6)]

\* The first address of a resolution: one of family 4 if it has any.
Pins(target) ==
  LET four == {a \in target.addresses : Family[a] = 4}
  IN IF four # {} THEN four ELSE target.addresses

Pinnable_whatever(target, pin, now) == pin \in target.addresses /\ Classified(target.addresses)

\* createPinnedRequestOptions: the addresses are classified again, the resolution
\* is neither of the future nor expired, the pin is one of its addresses.
Pinnable(target, pin, now) ==
  /\ Classified(target.addresses)
  /\ target.resolved <= now /\ now < target.expires
  /\ pin \in target.addresses
=============================================================================
