---------------------------- MODULE ClientAddress ----------------------------
(***************************************************************************)
(* The address the application takes for the client's                      *)
(* (src/middleware/real_ip.rs).                                             *)
(*                                                                          *)
(* A request leaves the client with forwarding headers of the client's      *)
(* choice, passes any number of trusted proxies, each of which records the  *)
(* peer it saw, and arrives.  A header is the sequence of its entries, left *)
(* to right over all its lines; an entry knows the line it is on, because a *)
(* line that is not text is dropped whole.                                  *)
(***************************************************************************)
EXTENDS Naturals, Sequences

CONSTANTS
    Trusted,      \* addresses inside TRUSTED_PROXIES
    Untrusted,    \* all other addresses
    ClientLists,  \* what a client may put in a header: sequences of entries
    Recording,    \* how proxies record their peer
    MaxHops,      \* bound: proxies on the way
    NoAddress

Addresses == Trusted \cup Untrusted

\* "port" is an address with a port, "junk" parses to no address.
Forms == {"plain", "port", "junk"}
Entry(ip, form, line) == [ip |-> ip, form |-> form, line |-> line]
Entries == [ip : Addresses, form : Forms, line : Nat]

ASSUME ClientAddressAssumption ==
    /\ Trusted \cap Untrusted = {}
    /\ NoAddress \notin Addresses
    /\ ClientLists \subseteq Seq(Entries)
    /\ \A list \in ClientLists : \A i \in DOMAIN list : list[i].line > 0
    /\ Recording \subseteq {"append", "add_line", "replace", "forwarded"}
    /\ MaxHops \in Nat

VARIABLES
    client,     \* the address the client connects from
    how,        \* "forwarded" if the proxies use Forwarded, else how they may use X-Forwarded-For
    peer,       \* the address the next one to receive the request sees
    hops,       \* proxies passed
    xff,        \* X-Forwarded-For
    forwarded,  \* Forwarded
    opaque,     \* the lines of each that are not text
    kept,       \* history: the entry of the first proxy is there and on a line that is text
    sent,       \* history: the addresses the client wrote into the headers
    real_ip     \* what the middleware found, NoAddress before

vars == <<client, how, peer, hops, xff, forwarded, opaque, kept, sent, real_ip>>

-----------------------------------------------------------------------------
(* The middleware                                                           *)

IsTrustedProxy(ip) == ip \in Trusted

\* Mutant: the first untrusted entry of those that parse is taken.
LeftmostUntrusted(list, dropped, forms) ==
    LET at == {i \in DOMAIN list : /\ list[i].line \notin dropped
                                   /\ list[i].form \in forms
                                   /\ ~IsTrustedProxy(list[i].ip)}
    IN  IF at = {} THEN NoAddress ELSE list[CHOOSE i \in at : \A j \in at : i <= j].ip

\* to_str, split, parse and rfind of the two client_ip functions
RightmostUntrusted(list, dropped, forms) ==
    LET at == {i \in DOMAIN list : /\ list[i].line \notin dropped
                                   /\ list[i].form \in forms
                                   /\ ~IsTrustedProxy(list[i].ip)}
    IN  IF at = {} THEN NoAddress ELSE list[CHOOSE i \in at : \A j \in at : j <= i].ip

XffClientIp == RightmostUntrusted(xff, opaque.xff, {"plain"})

\* parse_forwarded_for also takes an address with a port
ForwardedClientIp == RightmostUntrusted(forwarded, opaque.forwarded, {"plain", "port"})

\* extract_real_ip
ExtractRealIp ==
    LET found == IF XffClientIp # NoAddress THEN XffClientIp ELSE ForwardedClientIp
    IN  IF ~IsTrustedProxy(peer) \/ found = NoAddress THEN peer ELSE found

-----------------------------------------------------------------------------
(* The way of a request                                                     *)

Init ==
    /\ client \in Addresses
    /\ how \in {IF r = "forwarded" THEN "forwarded" ELSE "xff" : r \in Recording}
    /\ peer = client /\ hops = 0
    /\ xff \in ClientLists /\ forwarded \in ClientLists
    /\ opaque \in [xff : SUBSET {1}, forwarded : SUBSET {1}]
    /\ xff = <<>> => opaque.xff = {}
    /\ forwarded = <<>> => opaque.forwarded = {}
    /\ kept = TRUE
    /\ sent = {xff[i].ip : i \in DOMAIN xff} \cup {forwarded[i].ip : i \in DOMAIN forwarded}
    /\ real_ip = NoAddress

LastLine(list) == IF list = <<>> THEN 0 ELSE list[Len(list)].line

\* A trusted proxy passes the request on.  The contract of real_ip.rs: it appends the
\* peer to the last line or on a line of its own, or it replaces the header.  Proxies that
\* record the peer in Forwarded drop X-Forwarded-For.
Forward(p, r) ==
    /\ real_ip = NoAddress /\ hops < MaxHops
    /\ hops' = hops + 1 /\ peer' = p
    /\ (r = "forwarded") = (how = "forwarded")
    /\ xff' = CASE r = "append"    -> Append(xff, Entry(peer, "plain", LastLine(xff)))
                [] r = "add_line"  -> Append(xff, Entry(peer, "plain", LastLine(xff) + 1))
                [] r = "replace"   -> <<Entry(peer, "plain", LastLine(xff) + 1)>>
                [] r = "forwarded" -> <<>>
    /\ \E form \in {"plain", "port"} :
          forwarded' = IF r = "forwarded" THEN Append(forwarded, Entry(peer, form, LastLine(forwarded) + 1))
                       ELSE forwarded
    /\ kept' = /\ kept
               /\ r = "replace" => hops = 0
               /\ r = "append" => LastLine(xff) \notin opaque.xff
    /\ UNCHANGED <<client, how, opaque, sent, real_ip>>

\* middleware
Arrive ==
    /\ real_ip = NoAddress
    /\ real_ip' = ExtractRealIp
    /\ UNCHANGED <<client, how, peer, hops, xff, forwarded, opaque, kept, sent>>

Next == Arrive \/ \E p \in Trusted, r \in Recording : Forward(p, r)

Spec == Init /\ [][Next]_vars

-----------------------------------------------------------------------------
(* Properties                                                               *)

\* The state a request is in on its way.
TypeOK ==
    /\ client \in Addresses /\ peer \in Addresses
    /\ how \in {"xff", "forwarded"}
    /\ hops \in 0 .. MaxHops
    /\ xff \in Seq(Entries) /\ forwarded \in Seq(Entries)
    /\ opaque \in [xff : SUBSET {1}, forwarded : SUBSET {1}]
    /\ kept \in BOOLEAN

\* A client outside the trusted networks is found as long as the entry the first proxy made
\* for it arrives, whatever it wrote into the headers and however many proxies follow.
\* Two chains that keep to the contract of real_ip.rs lose that entry: one in which a later
\* proxy replaces the header, and one in which the first appends to a line of the client's
\* that is not text.
RecordIsFound == client \in Untrusted /\ kept => real_ip = client

\* Even they never lead to a third party's address: what is found is the client's, that of
\* the proxy that connects, or one the client itself wrote into a header.
NobodyElseIsFound == real_ip \in {client, peer} \cup sent

\* The address found is the client's if its record arrives, and nobody else's if not.
ClientFound == real_ip # NoAddress => RecordIsFound /\ NobodyElseIsFound
=============================================================================
