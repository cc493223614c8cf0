------------------------------ MODULE HttpProbe ------------------------------
(***************************************************************************)
(* The HTTP probe of an audit (src/scanners/http-probe.ts) and the rules   *)
(* for what it may connect to (src/security/url-policy.ts).  A person      *)
(* approves up to three URLs, each with or without the private network.    *)
(* They are probed in turn: a HEAD, a GET where HEAD is refused or a page  *)
(* answers, and redirects, each validated anew, with whatever addresses    *)
(* its host has by then.                                                   *)
(*                                                                         *)
(* A host is what the rules tell apart.  It has one address or more, and   *)
(* the connection is pinned to the first.  An address is of a class, which *)
(* the rules read off its text: from the resolver, or from the host itself *)
(* where that is an address, as new URL writes it.  It writes an IPv4      *)
(* address that is mapped into IPv6 in hexadecimal, which they take for a  *)
(* public one.                                                             *)
(***************************************************************************)
EXTENDS Naturals, Sequences

CONSTANTS
    RedirectLimit,
    MaxApproved         \* the length of the allowlist

ASSUME ProbeLimits == RedirectLimit \in Nat /\ MaxApproved \in Nat

VARIABLES
    allowlist,          \* for each approved URL, with the private network?
    turn,               \* the URL that is probed
    probeStage,         \* where the probe is
    target,             \* [host, answer] of the next request
    method,
    redirects,
    requests,           \* how many requests of this URL were sent
    connection,         \* the last one, if any
    outcomes,           \* of the URLs that were probed
    aborted             \* was the audit aborted?

targetVars == <<target, method, redirects>>
probeVars == <<allowlist, turn, probeStage, targetVars, requests, connection, outcomes, aborted>>

Classes == {"public", "loopback", "private", "forbidden"}
Addresses == [is : Classes, hex : BOOLEAN]      \* hex: an IPv4 address in hexadecimal

(* addressClass: what the rules take an address for.                       *)
AddressClass(address) == IF address.hex THEN "public" ELSE address.is

HostNames == {"named", "localhost",
              "unfit"}  \* malformed, with credentials, or of a cloud's metadata

Answers(addresses) == {a \in [first : addresses, all : SUBSET addresses] : a.first \in a.all}

Targets ==
    [host : HostNames, answer : Answers({a \in Addresses : ~a.hex})]
    \cup [host : {"literal"}, answer : {[first |-> a, all |-> {a}] : a \in Addresses}]

(* What comes back: "page" is HTML, "refused" the status 405 or 501.       *)
Responses == {"page", "other", "refused", "redirect",
              "error"}  \* or a timeout, or more bytes than the limit

NoTarget ==
    LET nowhere == [is |-> "forbidden", hex |-> FALSE]
    IN  [host |-> "literal", answer |-> [first |-> nowhere, all |-> {nowhere}]]

ProbeInit ==
    /\ allowlist \in UNION {[1..n -> BOOLEAN] : n \in 0..(MaxApproved + 1)}
    /\ turn = 0
    /\ probeStage = "next"
    /\ target = NoTarget /\ method = "HEAD" /\ redirects = 0 /\ requests = 0
    /\ connection = {}
    /\ outcomes = <<>>
    /\ aborted = FALSE

-----------------------------------------------------------------------------
(* validateProbeUrl.                                                       *)
Permitted(t, private) ==
    LET classes == {AddressClass(a) : a \in t.answer.all}
    IN  /\ t.host # "unfit"
        /\ "forbidden" \notin classes
        /\ "loopback" \in classes => t.host = "localhost" \/ classes = {"loopback"}
        /\ "private" \in classes => private

(* probeHttpAllowlist: a list that is too long, or an abort between two    *)
(* URLs, throws.                                                           *)
NextUrl ==
    /\ probeStage = "next"
    /\ turn < Len(allowlist)
    /\ IF Len(allowlist) > MaxApproved \/ aborted
       THEN /\ probeStage' = "thrown"
            /\ UNCHANGED <<turn, targetVars, requests>>
       ELSE /\ probeStage' = "resolve"
            /\ turn' = turn + 1
            /\ target' = NoTarget /\ method' = "HEAD" /\ redirects' = 0 /\ requests' = 0
    /\ UNCHANGED <<allowlist, connection, outcomes, aborted>>

AllProbed ==
    /\ probeStage = "next"
    /\ turn = Len(allowlist)
    /\ probeStage' = "done"
    /\ UNCHANGED <<allowlist, turn, targetVars, requests, connection, outcomes, aborted>>

UrlEnds(outcome) ==
    /\ outcomes' = Append(outcomes, outcome)
    /\ probeStage' = "next"

(* The URL, or the location of a redirect, is validated.                   *)
Resolve(t) ==
    /\ probeStage = "resolve"
    /\ IF Permitted(t, allowlist[turn]) /\ ~aborted
       THEN probeStage' = "request" /\ target' = t /\ UNCHANGED outcomes
       ELSE UrlEnds("failed") /\ UNCHANGED target
    /\ UNCHANGED <<allowlist, turn, method, redirects, requests, connection, aborted>>

(* requestOnce, and what the loop of probeHttp does next.                  *)
Again(m) == /\ method' = m
            /\ UNCHANGED <<probeStage, target, redirects, outcomes>>

(* Mutant: a redirect begins with HEAD again.                              *)
FollowAnew ==
    IF redirects >= RedirectLimit THEN UrlEnds("failed") /\ UNCHANGED targetVars
    ELSE /\ probeStage' = "resolve"
         /\ redirects' = redirects + 1
         /\ method' = "HEAD"
         /\ UNCHANGED <<target, outcomes>>

Follow ==
    IF redirects >= RedirectLimit THEN UrlEnds("failed") /\ UNCHANGED targetVars
    ELSE /\ probeStage' = "resolve"
         /\ redirects' = redirects + 1
         /\ UNCHANGED <<target, method, outcomes>>

Request(response) ==
    /\ probeStage = "request"
    /\ aborted => response = "error"
    /\ requests' = requests + 1
    /\ connection' = {[to |-> target, private |-> allowlist[turn]]}
    /\ CASE response = "error" -> UrlEnds("failed") /\ UNCHANGED targetVars
         [] response = "redirect" -> Follow
         [] response \in {"refused", "page"} /\ method = "HEAD" -> Again("GET")
         [] OTHER -> UrlEnds("observed") /\ UNCHANGED targetVars
    /\ UNCHANGED <<allowlist, turn, aborted>>

Abort ==
    /\ ~aborted
    /\ aborted' = TRUE
    /\ UNCHANGED <<allowlist, turn, probeStage, targetVars, requests, connection, outcomes>>

ProbeNext ==
    \/ NextUrl \/ AllProbed \/ Abort
    \/ \E t \in Targets : Resolve(t)
    \/ \E response \in Responses : Request(response)

ProbeSpec == ProbeInit /\ [][ProbeNext]_probeVars

(* The status of the run, once every URL was probed.                       *)
ProbeStatus ==
    IF outcomes = <<>> THEN "skipped"
    ELSE IF \A i \in DOMAIN outcomes : outcomes[i] = "observed" THEN "completed"
    ELSE IF \E i \in DOMAIN outcomes : outcomes[i] = "observed" THEN "partial"
    ELSE "failed"

-----------------------------------------------------------------------------
(* What an address is tells where a connection may go: none to a reserved  *)
(* address, none to the private network for a URL that was approved        *)
(* without it, none to this machine unless the host is here.               *)
WithinApproval(c) ==
    /\ c.to.answer.first.is # "forbidden"
    /\ c.to.answer.first.is = "private" => c.private
    /\ c.to.answer.first.is = "loopback" =>
            c.to.host = "localhost" \/ \A a \in c.to.answer.all : a.is = "loopback"

(* Over all redirects, answers of the resolver and URLs of the allowlist:  *)
(* no connection leaves what was approved, other than to an IPv4 address   *)
(* that the URL itself has in hexadecimal; a URL costs two requests more   *)
(* than redirects are allowed; and a completed run has observed every      *)
(* approved URL before it was aborted.                                     *)
ProbesStayApproved ==
    /\ \A c \in connection :
        WithinApproval(c) \/ (c.to.host = "literal" /\ c.to.answer.first.hex)
    /\ requests <= RedirectLimit + 2
    /\ probeStage = "done" /\ ProbeStatus = "completed" =>
            Len(allowlist) <= MaxApproved /\ Len(outcomes) = Len(allowlist)
=============================================================================
