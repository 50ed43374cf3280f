---------------------------- MODULE AtomicRegistry ----------------------------
(***************************************************************************)
(* What registering servers promises.  A request takes effect at one       *)
(* instant: it is registered, because nobody holds its hostname or its     *)
(* address, or refused, because somebody does; or it fails without effect. *)
(***************************************************************************)
CONSTANTS
    Requests,    \* clients' requests
    Hostnames,   \* hostnames and
    Addresses,   \* IP addresses they may name
    Earlier      \* stands for the requests that came before the behaviour

VARIABLES
    asked,       \* the keys each request wants
    servers,     \* the registered servers
    outcome      \* what became of each request

vars == <<asked, servers, outcome>>

Keys == [hostname : Hostnames, ip_address : Addresses]
NoKeys == [hostname |-> Earlier, ip_address |-> Earlier]

Server == [hostname : Hostnames, ip_address : Addresses,
           by : Requests \union {Earlier}]

ServerOf(k, r) == [hostname |-> k.hostname, ip_address |-> k.ip_address, by |-> r]

(* Two servers, or a server and the keys of a request, share a key.        *)
Clash(s, t) == s.hostname = t.hostname \/ s.ip_address = t.ip_address

Init ==
    /\ asked = [r \in Requests |-> NoKeys]
    /\ servers \in SUBSET {ServerOf(k, Earlier) : k \in Keys}
    /\ \A s, t \in servers : Clash(s, t) => s = t
    /\ outcome = [r \in Requests |-> "none"]

Ask(r) ==
    /\ outcome[r] = "none"
    /\ outcome' = [outcome EXCEPT ![r] = "pending"]
    /\ \E k \in Keys : asked' = [asked EXCEPT ![r] = k]
    /\ UNCHANGED servers

(* A malformed request is turned away at once.                             *)
TurnAway(r) ==
    /\ outcome[r] = "none"
    /\ outcome' = [outcome EXCEPT ![r] = "failed"]
    /\ UNCHANGED <<asked, servers>>

Decide(r, decision) ==
    /\ outcome[r] = "pending"
    /\ outcome' = [outcome EXCEPT ![r] = decision]
    /\ UNCHANGED asked

Register(r) ==
    /\ Decide(r, "registered")
    /\ \A s \in servers : ~Clash(s, asked[r])
    /\ servers' = servers \union {ServerOf(asked[r], r)}

Refuse(r) ==
    /\ Decide(r, "refused")
    /\ \E s \in servers : Clash(s, asked[r])
    /\ UNCHANGED servers

Fail(r) == Decide(r, "failed") /\ UNCHANGED servers

(* A process that dies fails all its requests at once.                     *)
FailAll ==
    /\ \E r \in Requests : outcome[r] = "pending"
    /\ outcome' = [r \in Requests |->
                      IF outcome[r] = "pending" THEN "failed" ELSE outcome[r]]
    /\ UNCHANGED <<asked, servers>>

Next ==
    \/ \E r \in Requests :
        Ask(r) \/ TurnAway(r) \/ Register(r) \/ Refuse(r) \/ Fail(r)
    \/ FailAll

Spec == Init /\ [][Next]_vars
===============================================================================
