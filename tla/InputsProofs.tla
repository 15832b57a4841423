---------------------------- MODULE InputsProofs ----------------------------
(***************************************************************************)
(* Proofs about how the server reads what it is given.  Of a request:       *)
(* ClientFound for any number of proxies, networks and header entries,      *)
(* PathIsNormalized for paths of any length, ScopesOnlyRestrict for any     *)
(* names and patterns.  Of the environment: the properties of Startup for   *)
(* every environment, rate and burst, and those of Pages for every setting  *)
(* and any number of tabs.                                                  *)
(***************************************************************************)
EXTENDS ClientAddress, NormalizePath, ScopeChecks, Startup, Pages,
        SequenceTheorems, FiniteSetTheorems, WellFoundedInduction, TLAPS

-----------------------------------------------------------------------------
(* The client's address.  The invariant says where it is while the request  *)
(* travels: before the first proxy it is the peer; after it, it is an entry *)
(* that parses, on a line that is text, and everything to its right is      *)
(* trusted.  rfind then stops there.                                        *)

\* The client's address is in the list, readable, with only proxies to its right.
Recorded(list, dropped, forms) ==
    \E i \in DOMAIN list : /\ list[i].ip = client
                           /\ list[i].line \notin dropped
                           /\ list[i].form \in forms
                           /\ \A j \in DOMAIN list : j > i => list[j].ip \in Trusted

\* A line that is not text is never the one after the last.
LinesInOrder(list, dropped) == 1 \in dropped => LastLine(list) >= 1

\* Every entry is the client's address, one it wrote or a proxy's.
Known(list) == \A i \in DOMAIN list : list[i].ip \in Trusted \cup {client} \cup sent

OnTheWay ==
    \/ hops = 0 /\ peer = client
    \/ /\ hops > 0 /\ peer \in Trusted /\ how = "xff"
       /\ Recorded(xff, opaque.xff, {"plain"})
    \/ /\ hops > 0 /\ peer \in Trusted /\ how = "forwarded" /\ xff = <<>>
       /\ Recorded(forwarded, opaque.forwarded, {"plain", "port"})

IInv ==
    /\ TypeOK
    /\ how = "xff" => LinesInOrder(xff, opaque.xff)
    /\ LinesInOrder(forwarded, opaque.forwarded)
    /\ kept /\ real_ip = NoAddress /\ client \in Untrusted => OnTheWay
    /\ peer \in Trusted \cup {client}
    /\ Known(xff) /\ Known(forwarded)
    /\ ClientFound

\* rfind takes the last of the positions that qualify.
LEMMA LastIsChosen ==
    ASSUME NEW S \in SUBSET Nat, NEW n \in S, \A j \in S : j <= n
    PROVE  (CHOOSE i \in S : \A j \in S : j <= i) = n
  <1>1. PICK m \in S : m = (CHOOSE i \in S : \A j \in S : j <= i) /\ \A j \in S : j <= m
    OBVIOUS
  <1>2. m <= n /\ n <= m
    BY <1>1
  <1> QED
    BY <1>1, <1>2

\* A client that is recorded is the one found.
LEMMA RecordedIsFound ==
    ASSUME NEW list \in Seq(Entries), NEW dropped, NEW forms,
           client \in Untrusted, Recorded(list, dropped, forms)
    PROVE  RightmostUntrusted(list, dropped, forms) = client
  <1> DEFINE at == {i \in DOMAIN list : /\ list[i].line \notin dropped
                                        /\ list[i].form \in forms
                                        /\ ~IsTrustedProxy(list[i].ip)}
  <1>1. PICK n \in DOMAIN list : /\ list[n].ip = client
                                 /\ list[n].line \notin dropped
                                 /\ list[n].form \in forms
                                 /\ \A j \in DOMAIN list : j > n => list[j].ip \in Trusted
    BY DEF Recorded
  <1>2. n \in at
    BY <1>1, ClientAddressAssumption DEF IsTrustedProxy
  <1>3. at \in SUBSET Nat /\ n \in Nat
    OBVIOUS
  <1>4. \A j \in at : j <= n
    BY <1>1, <1>3 DEF IsTrustedProxy
  <1>5. (CHOOSE i \in at : \A j \in at : j <= i) = n
    <2> HIDE DEF at
    <2> QED BY <1>2, <1>3, <1>4, LastIsChosen
  <1>6. RightmostUntrusted(list, dropped, forms)
            = IF at = {} THEN NoAddress ELSE list[CHOOSE i \in at : \A j \in at : j <= i].ip
    BY DEF RightmostUntrusted
  <1> QED
    <2> HIDE DEF at
    <2> QED BY <1>1, <1>2, <1>5, <1>6

\* Of positions in a list there is a last one.
LEMMA LastExists ==
    ASSUME NEW n \in Nat, NEW at \in SUBSET (1 .. n), at # {}
    PROVE  \E i \in at : \A j \in at : j <= i
  <1> DEFINE T == {n - i : i \in at}
             R == OpToRel(<, Nat)
  <1>1. T \subseteq Nat /\ T # {}
    <2>1. \A i \in at : n - i \in Nat
      OBVIOUS
    <2>2. PICK i \in at : TRUE
      OBVIOUS
    <2>3. n - i \in T
      OBVIOUS
    <2> QED
      BY <2>1, <2>3
  <1>2. IsWellFoundedOn(R, Nat)
    BY NatLessThanWellFounded
  <1>3. \A x, y \in Nat : x < y => <<x, y>> \in R
    BY DEF OpToRel
  <1> HIDE DEF R, T
  <1>4. PICK x \in T : \A y \in T : ~(<<y, x>> \in R)
    BY <1>1, <1>2, WFMin
  <1>5. \A y \in T : ~(y < x)
    BY <1>1, <1>3, <1>4
  <1> USE DEF T
  <1>6. PICK i \in at : x = n - i
    OBVIOUS
  <1>7. ASSUME NEW j \in at PROVE j <= i
    <2>1. n - j \in T
      OBVIOUS
    <2>2. ~(n - j < n - i)
      BY <1>5, <1>6, <2>1
    <2> QED
      BY <2>2
  <1> QED
    BY <1>7

\* What is found among known entries is the client or an address it wrote.
LEMMA KnownIsFound ==
    ASSUME NEW list \in Seq(Entries), NEW dropped, NEW forms, Known(list),
           RightmostUntrusted(list, dropped, forms) # NoAddress
    PROVE  RightmostUntrusted(list, dropped, forms) \in {client} \cup sent
  <1> DEFINE at == {i \in DOMAIN list : /\ list[i].line \notin dropped
                                        /\ list[i].form \in forms
                                        /\ ~IsTrustedProxy(list[i].ip)}
  <1>1. RightmostUntrusted(list, dropped, forms)
            = IF at = {} THEN NoAddress ELSE list[CHOOSE i \in at : \A j \in at : j <= i].ip
    BY DEF RightmostUntrusted
  <1>2. at # {}
    BY <1>1
  <1>3. at \in SUBSET (1 .. Len(list)) /\ Len(list) \in Nat
    OBVIOUS
  <1>4. \A i \in at : list[i].ip \in {client} \cup sent
    BY DEF Known, IsTrustedProxy
  <1> HIDE DEF at
  <1>5. (CHOOSE i \in at : \A j \in at : j <= i) \in at
    BY <1>2, <1>3, LastExists
  <1> QED
    BY <1>1, <1>2, <1>4, <1>5

\* A proxy's entry, or the client's, keeps the list known.
LEMMA AppendKnown ==
    ASSUME NEW list \in Seq(Entries), NEW e \in Entries, Known(list), e.ip \in Trusted \cup {client}
    PROVE  Known(Append(list, e)) /\ Known(<<e>>)
  <1>1. ASSUME NEW i \in DOMAIN Append(list, e)
        PROVE  Append(list, e)[i].ip \in Trusted \cup {client} \cup sent
    <2>1. CASE i \in DOMAIN list
      BY <2>1 DEF Known
    <2>2. CASE i = Len(list) + 1
      BY <2>2
    <2> QED
      BY <2>1, <2>2
  <1>2. \A i \in DOMAIN <<e>> : <<e>>[i] = e
    OBVIOUS
  <1> QED
    BY <1>1, <1>2 DEF Known

\* The entry of a proxy to the right of the client's keeps it recorded.
LEMMA AppendKeeps ==
    ASSUME NEW list \in Seq(Entries), NEW dropped, NEW forms, NEW e \in Entries,
           e.ip \in Trusted, Recorded(list, dropped, forms)
    PROVE  Recorded(Append(list, e), dropped, forms)
  <1>1. PICK n \in DOMAIN list : /\ list[n].ip = client
                                 /\ list[n].line \notin dropped
                                 /\ list[n].form \in forms
                                 /\ \A j \in DOMAIN list : j > n => list[j].ip \in Trusted
    BY DEF Recorded
  <1>2. n \in DOMAIN Append(list, e) /\ Append(list, e)[n] = list[n]
    OBVIOUS
  <1>3. ASSUME NEW j \in DOMAIN Append(list, e), j > n
        PROVE  Append(list, e)[j].ip \in Trusted
    <2>1. CASE j \in DOMAIN list
      BY <1>1, <1>3, <2>1
    <2>2. CASE j = Len(list) + 1
      BY <2>2
    <2> QED
      BY <2>1, <2>2
  <1> QED
    BY <1>1, <1>2, <1>3 DEF Recorded

\* The entry the first proxy appends records the client.
LEMMA AppendRecords ==
    ASSUME NEW list \in Seq(Entries), NEW dropped, NEW forms, NEW e \in Entries,
           e.ip = client, e.line \notin dropped, e.form \in forms
    PROVE  Recorded(Append(list, e), dropped, forms)
  <1>1. /\ Len(list) + 1 \in DOMAIN Append(list, e)
        /\ Append(list, e)[Len(list) + 1] = e
        /\ \A j \in DOMAIN Append(list, e) : ~(j > Len(list) + 1)
    OBVIOUS
  <1> QED
    BY <1>1 DEF Recorded

\* The number of the last line is a number.
LEMMA LastLineType ==
    ASSUME NEW list \in Seq(Entries) PROVE LastLine(list) \in Nat
  <1>1. CASE list = <<>>
    BY <1>1 DEF LastLine
  <1>2. CASE list # <<>>
    <2>1. list[Len(list)] \in Entries
      BY <1>2
    <2> QED BY <1>2, <2>1 DEF LastLine, Entries
  <1> QED BY <1>1, <1>2

\* An appended entry is on the last line.
LEMMA LastLineAppend ==
    ASSUME NEW list \in Seq(Entries), NEW e \in Entries
    PROVE  LastLine(Append(list, e)) = e.line
  BY DEF LastLine
-----------------------------------------------------------------------------

\* Entry is the record it looks like.
LEMMA EntryType ==
    ASSUME NEW ip \in Addresses, NEW form \in Forms, NEW line \in Nat
    PROVE  /\ Entry(ip, form, line) \in Entries
           /\ Entry(ip, form, line).ip = ip
           /\ Entry(ip, form, line).form = form
           /\ Entry(ip, form, line).line = line
  BY DEF Entry, Entries

\* A request starts at the client, who is the peer.
LEMMA InitIInv == Init => IInv
  <1> SUFFICES ASSUME Init PROVE IInv
    OBVIOUS
  <1> USE DEF Init
  <1>1. xff \in Seq(Entries) /\ forwarded \in Seq(Entries)
    BY ClientAddressAssumption
  <1>2. TypeOK
    <2>1. hops \in 0 .. MaxHops
      BY ClientAddressAssumption
    <2>2. how \in {"xff", "forwarded"}
      OBVIOUS
    <2> QED
      BY <1>1, <2>1, <2>2 DEF TypeOK
  <1>3. ASSUME NEW list \in ClientLists, list # <<>> PROVE LastLine(list) >= 1
    <2>1. list \in Seq(Entries) /\ Len(list) \in DOMAIN list
      BY <1>3, ClientAddressAssumption
    <2>2. list[Len(list)].line > 0
      BY <2>1, ClientAddressAssumption
    <2>3. LastLine(list) \in Nat
      BY <2>1, LastLineType
    <2> QED
      BY <1>3, <2>2, <2>3 DEF LastLine
  <1>4. LinesInOrder(xff, opaque.xff) /\ LinesInOrder(forwarded, opaque.forwarded)
    BY <1>3 DEF LinesInOrder
  <1>5. Known(xff) /\ Known(forwarded)
    BY DEF Known
  <1> QED
    BY <1>2, <1>4, <1>5 DEF IInv, OnTheWay, ClientFound

\* A proxy passes the request on: the client's address stays where rfind will look.
LEMMA ForwardIInv ==
    ASSUME IInv, NEW p \in Trusted, NEW r \in Recording, Forward(p, r)
    PROVE  IInv'
  <1> USE DEF IInv, TypeOK, Forward
  <1>0. /\ p \in Addresses /\ peer \in Addresses
        /\ LastLine(xff) \in Nat /\ LastLine(forwarded) \in Nat
        /\ "plain" \in Forms /\ "port" \in Forms
        /\ hops \in Nat /\ MaxHops \in Nat
    BY LastLineType, ClientAddressAssumption DEF Addresses, Forms
  <1>1. PICK form \in {"plain", "port"} :
            forwarded' = IF r = "forwarded" THEN Append(forwarded, Entry(peer, form, LastLine(forwarded) + 1))
                         ELSE forwarded
    OBVIOUS
  <1> DEFINE same == Entry(peer, "plain", LastLine(xff))
             own  == Entry(peer, "plain", LastLine(xff) + 1)
             fwd  == Entry(peer, form, LastLine(forwarded) + 1)
  <1>2. /\ same \in Entries /\ same.ip = peer /\ same.form = "plain" /\ same.line = LastLine(xff)
        /\ own \in Entries /\ own.ip = peer /\ own.form = "plain" /\ own.line = LastLine(xff) + 1
        /\ fwd \in Entries /\ fwd.ip = peer /\ fwd.form = form /\ fwd.line = LastLine(forwarded) + 1
    <2>1. form \in Forms /\ LastLine(xff) + 1 \in Nat /\ LastLine(forwarded) + 1 \in Nat
      BY <1>0
    <2> HIDE DEF IInv, TypeOK, Forward
    <2>2. same \in Entries /\ same.ip = peer /\ same.form = "plain" /\ same.line = LastLine(xff)
      BY <1>0, <2>1, EntryType
    <2>3. own \in Entries /\ own.ip = peer /\ own.form = "plain" /\ own.line = LastLine(xff) + 1
      BY <1>0, <2>1, EntryType
    <2>4. fwd \in Entries /\ fwd.ip = peer /\ fwd.form = form /\ fwd.line = LastLine(forwarded) + 1
      BY <1>0, <2>1, EntryType
    <2> QED
      BY <2>2, <2>3, <2>4
  <1>3. /\ r = "append" => xff' = Append(xff, same)
        /\ r = "add_line" => xff' = Append(xff, own)
        /\ r = "replace" => xff' = <<own>>
        /\ r = "forwarded" => xff' = <<>> /\ forwarded' = Append(forwarded, fwd)
        /\ r # "forwarded" => forwarded' = forwarded
    BY <1>1
  <1>4. r \in {"append", "add_line", "replace", "forwarded"}
    BY ClientAddressAssumption
  <1> HIDE DEF same, own, fwd
  <1>5. xff' \in Seq(Entries) /\ forwarded' \in Seq(Entries)
    BY <1>2, <1>3, <1>4
  <1>6. TypeOK'
    <2>1. hops' \in 0 .. MaxHops
      BY <1>0
    <2> QED
      BY <1>0, <1>5, <2>1
  <1>7. (how = "xff" => LinesInOrder(xff, opaque.xff))'
    <2> SUFFICES ASSUME how = "xff", 1 \in opaque.xff PROVE LastLine(xff') >= 1
      BY DEF LinesInOrder
    <2>1. LastLine(xff) >= 1
      BY DEF LinesInOrder
    <2>2. CASE r = "append"
      BY <1>0, <1>2, <1>3, <2>1, <2>2, LastLineAppend
    <2>3. CASE r = "add_line"
      BY <1>0, <1>2, <1>3, <2>1, <2>3, LastLineAppend
    <2>4. CASE r = "replace"
      BY <1>0, <1>2, <1>3, <2>1, <2>4 DEF LastLine
    <2> QED
      BY <1>4, <2>2, <2>3, <2>4
  <1>8. LinesInOrder(forwarded, opaque.forwarded)'
    <2>1. CASE r = "forwarded"
      BY <1>0, <1>2, <1>3, <2>1, LastLineAppend DEF LinesInOrder
    <2>2. CASE r # "forwarded"
      BY <1>3, <2>2 DEF LinesInOrder
    <2> QED BY <2>1, <2>2
  <1>9. (kept /\ real_ip = NoAddress /\ client \in Untrusted => OnTheWay)'
    <2> SUFFICES ASSUME kept', client \in Untrusted PROVE OnTheWay'
      OBVIOUS
    <2>1. OnTheWay /\ (r = "replace" => hops = 0)
          /\ (r = "append" => LastLine(xff) \notin opaque.xff)
      BY ClientAddressAssumption
    <2>2. hops' > 0 /\ peer' \in Trusted /\ how' = how /\ opaque' = opaque /\ client' = client
      BY <1>0
    <2>3. /\ how = "xff" => LastLine(xff) + 1 \notin opaque.xff
          /\ LastLine(forwarded) + 1 \notin opaque.forwarded
      BY <1>0 DEF LinesInOrder
    <2>4. CASE hops = 0 /\ peer = client
      <3>1. CASE r = "append"
        <4>1. Recorded(Append(xff, same), opaque.xff, {"plain"})
          BY <1>2, <2>1, <2>4, <3>1, AppendRecords
        <4> QED BY <1>3, <2>2, <3>1, <4>1 DEF OnTheWay, Recorded
      <3>2. CASE r = "add_line"
        <4>1. Recorded(Append(xff, own), opaque.xff, {"plain"})
          BY <1>2, <2>3, <2>4, <3>2, AppendRecords
        <4> QED BY <1>3, <2>2, <3>2, <4>1 DEF OnTheWay, Recorded
      <3>3. CASE r = "replace"
        <4>1. /\ 1 \in DOMAIN <<own>> /\ <<own>>[1] = own
              /\ \A j \in DOMAIN <<own>> : ~(j > 1)
          OBVIOUS
        <4>2. Recorded(<<own>>, opaque.xff, {"plain"})
          BY <1>2, <2>3, <2>4, <3>3, <4>1 DEF Recorded
        <4> QED BY <1>3, <2>2, <3>3, <4>2 DEF OnTheWay, Recorded
      <3>4. CASE r = "forwarded"
        <4>1. Recorded(Append(forwarded, fwd), opaque.forwarded, {"plain", "port"})
          BY <1>2, <2>3, <2>4, <3>4, AppendRecords
        <4> QED BY <1>3, <2>2, <3>4, <4>1 DEF OnTheWay, Recorded
      <3> QED BY <1>4, <2>1, <3>1, <3>2, <3>3, <3>4
    <2>5. CASE hops > 0 /\ peer \in Trusted /\ how = "xff" /\ Recorded(xff, opaque.xff, {"plain"})
      <3>1. CASE r = "append"
        <4>1. Recorded(Append(xff, same), opaque.xff, {"plain"})
          BY <1>2, <2>5, AppendKeeps
        <4> QED BY <1>3, <2>2, <2>5, <3>1, <4>1 DEF OnTheWay, Recorded
      <3>2. CASE r = "add_line"
        <4>1. Recorded(Append(xff, own), opaque.xff, {"plain"})
          BY <1>2, <2>5, AppendKeeps
        <4> QED BY <1>3, <2>2, <2>5, <3>2, <4>1 DEF OnTheWay, Recorded
      <3> QED BY <1>0, <1>4, <2>1, <2>5, <3>1, <3>2
    <2>6. CASE /\ hops > 0 /\ peer \in Trusted /\ how = "forwarded"
               /\ Recorded(forwarded, opaque.forwarded, {"plain", "port"})
      <3>1. Recorded(Append(forwarded, fwd), opaque.forwarded, {"plain", "port"})
        BY <1>2, <2>6, AppendKeeps
      <3> QED BY <1>3, <2>2, <2>6, <3>1 DEF OnTheWay, Recorded
    <2> QED
      BY <2>1, <2>4, <2>5, <2>6 DEF OnTheWay
  <1>10. ClientFound'
    BY DEF ClientFound
  <1>11. peer' \in Trusted \cup {client'}
    OBVIOUS
  <1>12. Known(xff') /\ Known(forwarded')
    <2>1. /\ Known(Append(xff, same)) /\ Known(Append(xff, own)) /\ Known(<<own>>)
          /\ Known(Append(forwarded, fwd))
      BY <1>2, AppendKnown
    <2>2. Known(<<>>)
      BY DEF Known
    <2> QED
      BY <1>3, <1>4, <2>1, <2>2
  <1>13. Known(xff)' /\ Known(forwarded)'
    BY <1>12 DEF Known
  <1> QED
    BY <1>6, <1>7, <1>8, <1>9, <1>10, <1>11, <1>13

\* The middleware finds the address the invariant has kept track of.
LEMMA ArriveIInv ==
    ASSUME IInv, Arrive
    PROVE  IInv'
  <1> USE DEF IInv, TypeOK, Arrive
  <1>1. RecordIsFound'
    <2> SUFFICES ASSUME kept, client \in Untrusted PROVE ExtractRealIp = client
      BY DEF RecordIsFound
    <2>0. client # NoAddress /\ client \notin Trusted
      BY ClientAddressAssumption DEF Addresses
    <2>1. OnTheWay
      OBVIOUS
    <2>2. CASE hops = 0 /\ peer = client
      BY <2>0, <2>2 DEF ExtractRealIp, IsTrustedProxy
    <2>3. CASE peer \in Trusted /\ Recorded(xff, opaque.xff, {"plain"})
      <3>1. XffClientIp = client
        BY <2>3, RecordedIsFound DEF XffClientIp
      <3> QED BY <2>0, <2>3, <3>1 DEF ExtractRealIp, IsTrustedProxy
    <2>4. CASE /\ peer \in Trusted /\ xff = <<>>
               /\ Recorded(forwarded, opaque.forwarded, {"plain", "port"})
      <3>1. XffClientIp = NoAddress
        BY <2>4 DEF XffClientIp, RightmostUntrusted
      <3>2. ForwardedClientIp = client
        BY <2>4, RecordedIsFound DEF ForwardedClientIp
      <3> QED BY <2>0, <2>4, <3>1, <3>2 DEF ExtractRealIp, IsTrustedProxy
    <2> QED
      BY <2>1, <2>2, <2>3, <2>4 DEF OnTheWay
  <1>2. (kept /\ real_ip = NoAddress /\ client \in Untrusted => OnTheWay)'
    BY DEF OnTheWay, Recorded
  <1>3. NobodyElseIsFound'
    <2>1. XffClientIp # NoAddress => XffClientIp \in {client} \cup sent
      BY KnownIsFound DEF XffClientIp
    <2>2. ForwardedClientIp # NoAddress => ForwardedClientIp \in {client} \cup sent
      BY KnownIsFound DEF ForwardedClientIp
    <2>3. ExtractRealIp \in {client, peer} \cup sent
      BY <2>1, <2>2 DEF ExtractRealIp
    <2> QED
      BY <2>3 DEF NobodyElseIsFound
  <1>4. ClientFound'
    BY <1>1, <1>3 DEF ClientFound
  <1>5. Known(xff)' /\ Known(forwarded)'
    BY DEF Known
  <1> QED
    BY <1>2, <1>4, <1>5 DEF LinesInOrder

\* Behind any number of trusted proxies and whatever the client wrote: extract_real_ip
\* returns the address the client connects from if the entry the first proxy made for it
\* arrives on a line that is text.  If a later proxy replaces the header, or the first one
\* appends to a line that is not text, it returns that, the address of the proxy that
\* connects, or one the client wrote itself.
THEOREM ClientIsFound == Spec => []ClientFound
  <1>1. Init => IInv
    BY InitIInv
  <1>2. IInv /\ [Next]_vars => IInv'
    <2> SUFFICES ASSUME IInv, [Next]_vars PROVE IInv'
      OBVIOUS
    <2>1. CASE Arrive
      BY <2>1, ArriveIInv
    <2>2. CASE \E p \in Trusted, r \in Recording : Forward(p, r)
      BY <2>2, ForwardIInv
    <2>3. CASE UNCHANGED vars
      BY <2>3 DEF IInv, TypeOK, vars, LinesInOrder, LastLine, OnTheWay, Recorded, Known, ClientFound,
         RecordIsFound, NobodyElseIsFound
    <2> QED
      BY <2>1, <2>2, <2>3 DEF Next
  <1>3. IInv => ClientFound
    BY DEF IInv
  <1> QED
    BY <1>1, <1>2, <1>3, PTL DEF Spec

-----------------------------------------------------------------------------
(* The scopes of a token                                                    *)

\* Names and patterns are the sequences up to the bound.
LEMMA WordsAreSequences ==
    ASSUME NEW A, NEW w
    PROVE  w \in Words(A) <=> w \in Seq(A) /\ Len(w) <= MaxName
<1>1. ASSUME w \in Words(A) PROVE w \in Seq(A) /\ Len(w) <= MaxName
  <2>1. PICK n \in 0 .. MaxName : w \in [1 .. n -> A]
    BY <1>1 DEF Words
  <2>2. n \in Nat /\ n <= MaxName
    BY <2>1, ScopeChecksAssumption
  <2>3. w \in Seq(A) /\ Len(w) = n
    BY <2>1, <2>2
  <2> QED
    BY <2>2, <2>3
<1>2. ASSUME w \in Seq(A), Len(w) <= MaxName PROVE w \in Words(A)
  <2>1. Len(w) \in 0 .. MaxName /\ w \in [1 .. Len(w) -> A]
    BY <1>2, ScopeChecksAssumption
  <2> QED
    BY <2>1 DEF Words
<1> QED
  BY <1>1, <1>2

\* A stem with a star behind it: strip_suffix('*') gives the stem back.
LEMMA StarredPattern ==
    ASSUME NEW stem \in Seq(Letters), NEW e, e = Append(stem, "*")
    PROVE  e # << >> /\ EndsInStar(e) /\ Stem(e) = stem
<1> DEFINE S == Letters \cup {"*"}
<1>1. stem \in Seq(S) /\ "*" \in S
  OBVIOUS
<1>2. e \in Seq(S) /\ Len(e) = Len(stem) + 1 /\ e[Len(stem) + 1] = "*"
  BY <1>1, AppendProperties
<1>3. \A i \in 1 .. Len(stem) : e[i] = stem[i]
  BY <1>1, AppendProperties
<1>4. e # << >> /\ EndsInStar(e)
  BY <1>1, <1>2 DEF EndsInStar, Last
<1>5. Front(e) = stem
  <2>1. Front(e) = SubSeq(e, 1, Len(stem))
    BY <1>1, <1>2 DEF Front
  <2>2. 1 \in Int /\ Len(stem) \in Int /\ \A i \in 1 .. Len(stem) : e[i] \in Letters
    BY <1>3
  <2>3. /\ SubSeq(e, 1, Len(stem)) \in Seq(Letters) /\ Len(SubSeq(e, 1, Len(stem))) = Len(stem)
        /\ \A i \in 1 .. Len(stem) : SubSeq(e, 1, Len(stem))[i] = e[i]
    BY <2>2, SubSeqProperties
  <2> QED
    BY <1>3, <2>1, <2>3, SeqEqual
<1> QED
  BY <1>4, <1>5 DEF Stem

\* A pattern without a star names itself.
LEMMA PlainPattern ==
    ASSUME NEW e \in Seq(Letters)
    PROVE  ~EndsInStar(e) /\ Stem(e) = e
<1>1. e # << >> => Last(e) \in Letters
  BY DEF Last
<1> QED
  BY <1>1, ScopesAssumption DEF EndsInStar, Stem

\* is_valid_pattern accepts what the documentation calls a pattern.
LEMMA ValidIsPattern ==
    ASSUME NEW e \in Words(Letters \cup {"*"})
    PROVE  is_valid_pattern(e) <=> IsPattern(e)
<1> DEFINE S == Letters \cup {"*"}
<1>1. e \in Seq(S) /\ Len(e) <= MaxName /\ Len(e) \in Nat
  BY WordsAreSequences
<1>2. ASSUME is_valid_pattern(e) PROVE IsPattern(e)
  <2>1. e # << >> /\ Len(e) >= 1
    BY <1>1, <1>2 DEF is_valid_pattern
  <2>2. CASE EndsInStar(e)
    <3> DEFINE stem == Front(e)
    <3>1. stem = SubSeq(e, 1, Len(e) - 1) /\ Stem(e) = stem /\ e[Len(e)] = "*"
      BY <2>2 DEF Front, Stem, EndsInStar, Last
    <3>2. \A i \in 1 .. Len(e) - 1 : e[i] \in S
      BY <1>1
    <3>3. /\ stem \in Seq(S) /\ Len(stem) = Len(e) - 1
          /\ \A i \in 1 .. Len(e) - 1 : stem[i] = e[i]
      <4>1. 1 \in Int /\ Len(e) - 1 \in Int
        BY <1>1
      <4>2. /\ SubSeq(e, 1, Len(e) - 1) \in Seq(S)
            /\ Len(SubSeq(e, 1, Len(e) - 1)) = (IF 1 <= Len(e) - 1 THEN Len(e) - 1 - 1 + 1 ELSE 0)
            /\ \A i \in 1 .. Len(e) - 1 - 1 + 1 : SubSeq(e, 1, Len(e) - 1)[i] = e[1 + i - 1]
        BY <3>2, <4>1, SubSeqProperties
      <4>3. Len(e) - 1 - 1 + 1 = Len(e) - 1 /\ \A i \in 1 .. Len(e) - 1 : 1 + i - 1 = i
        BY <1>1
      <4> HIDE DEF stem
      <4> QED
        BY <1>1, <2>1, <3>1, <4>2, <4>3
    <3> HIDE DEF stem
    <3>4. \A i \in 1 .. Len(stem) : stem[i] \in Letters
      <4>1. \A i \in DOMAIN stem : stem[i] \in Letters
        <5>1. Stem(e) = stem
          BY <3>1
        <5> QED
          BY <1>2, <5>1 DEF is_valid_pattern
      <4> QED
        BY <3>3, <4>1
    <3>5. stem \in Seq(Letters) /\ Len(stem) <= MaxName
      BY <1>1, <3>3, <3>4, ScopeChecksAssumption
    <3>6. e = Append(stem, "*")
      <4>1. /\ Append(stem, "*") \in Seq(S) /\ Len(Append(stem, "*")) = Len(stem) + 1
            /\ \A i \in 1 .. Len(stem) : Append(stem, "*")[i] = stem[i]
            /\ Append(stem, "*")[Len(stem) + 1] = "*"
        BY <3>3, AppendProperties
      <4>2. Len(Append(stem, "*")) = Len(e)
        BY <1>1, <3>3, <4>1
      <4>3. \A i \in 1 .. Len(e) : Append(stem, "*")[i] = e[i]
        BY <1>1, <3>1, <3>3, <4>1
      <4> QED
        BY <1>1, <4>1, <4>2, <4>3, SeqEqual
    <3> QED
      BY <2>1, <3>5, <3>6, WordsAreSequences DEF IsPattern
  <2>3. CASE ~EndsInStar(e)
    <3>1. Stem(e) = e
      BY <2>3 DEF Stem
    <3>2. e \in Seq(Letters)
      BY <1>1, <1>2, <3>1 DEF is_valid_pattern
    <3> QED
      BY <1>1, <2>1, <3>2, WordsAreSequences DEF IsPattern
  <2> QED
    BY <2>2, <2>3
<1>3. ASSUME IsPattern(e) PROVE is_valid_pattern(e)
  <2>1. PICK stem \in Words(Letters) : e = stem \/ e = Append(stem, "*")
    BY <1>3 DEF IsPattern
  <2>2. stem \in Seq(Letters)
    BY WordsAreSequences
  <2>3. Stem(e) = stem
    BY <2>1, <2>2, StarredPattern, PlainPattern
  <2> QED
    BY <1>3, <2>2, <2>3 DEF is_valid_pattern, IsPattern
<1> QED
  BY <1>2, <1>3

\* ResourceScope::matches is the meaning of a pattern.
LEMMA MatchesIsCovered ==
    ASSUME NEW e \in Words(Letters \cup {"*"}), IsPattern(e), NEW n \in ResourceNames
    PROVE  matches(e, n) <=> n \in Covered(e)
<1>1. PICK stem \in Words(Letters) : e = stem \/ e = Append(stem, "*")
  BY DEF IsPattern
<1>2. \A w \in Words(Letters) : w \in Seq(Letters)
  BY WordsAreSequences
<1>3. \A w \in Words(Letters) : ~EndsInStar(w)
  BY <1>2, PlainPattern
<1>4. \A w \in Words(Letters) : e = Append(w, "*") => EndsInStar(e) /\ Stem(e) = w
  BY <1>2, StarredPattern
<1>5. CASE e = stem
  <2>1. matches(e, n) <=> n = stem
    BY <1>3, <1>5 DEF matches
  <2> QED
    BY <1>3, <1>4, <1>5, <2>1 DEF Covered
<1>6. CASE e = Append(stem, "*")
  <2>1. matches(e, n) <=> IsPrefix(stem, n)
    BY <1>4, <1>6 DEF matches
  <2> QED
    BY <1>3, <1>4, <1>6, <2>1 DEF Covered
<1> QED
  BY <1>1, <1>5, <1>6

\* The checks an endpoint can make.
LEMMA EndpointFields ==
    ASSUME NEW c \in Endpoints
    PROVE  /\ c.action_scope \in {None, "read", "delete"}
           /\ c.crate_name \in ResourceNames \cup {None}
<1>1. \A b \in Bases : b \in [allow_token : BOOLEAN, action_scope : {None}, crate_name : {None},
                              allow_any_crate_scope : BOOLEAN]
  <2> DEFINE R == [allow_token : BOOLEAN, action_scope : {None}, crate_name : {None},
                   allow_any_crate_scope : BOOLEAN]
  <2>1. new \in R
    BY DEF new
  <2>2. [new EXCEPT !.allow_token = FALSE] \in R
    BY <2>1
  <2> QED
    BY <2>1, <2>2 DEF Bases, only_cookie
<1>2. \A b \in Scoped : b \in [allow_token : BOOLEAN, action_scope : {None, "read", "delete"},
                               crate_name : {None}, allow_any_crate_scope : BOOLEAN]
  <2>1. ASSUME NEW b \in Bases, NEW t \in {"read", "delete"}
        PROVE  with_action_scope(b, t) \in
                 [allow_token : BOOLEAN, action_scope : {None, "read", "delete"},
                  crate_name : {None}, allow_any_crate_scope : BOOLEAN]
    BY <1>1 DEF with_action_scope
  <2> QED
    BY <1>1, <2>1 DEF Scoped
<1>3. ASSUME NEW b \in Scoped, NEW n \in ResourceNames
      PROVE  /\ for_crate(b, n).action_scope \in {None, "read", "delete"}
             /\ for_crate(b, n).crate_name = n
  BY <1>2 DEF for_crate
<1>4. ASSUME NEW b \in Scoped
      PROVE  /\ allow_any_crate_scope(b).action_scope \in {None, "read", "delete"}
             /\ allow_any_crate_scope(b).crate_name = None
  BY <1>2 DEF allow_any_crate_scope
<1> QED
  BY <1>2, <1>3, <1>4 DEF Endpoints

\* A wider action column grants the action as well.
LEMMA WiderActions ==
    ASSUME NEW c \in Endpoints, NEW a \in ActionColumns, NEW b \in ActionColumns,
           Within(a, b, Actions, IsAction),
           action_scope_matches(c, parse_action_scopes(a))
    PROVE  action_scope_matches(c, parse_action_scopes(b))
<1> DEFINE x == IF c.action_scope = None THEN "admin" ELSE c.action_scope
<1>1. x \in ActionScope
  BY EndpointFields DEF ActionScope
<1>2. CASE b = None
  BY <1>2 DEF parse_action_scopes, action_scope_matches
<1>3. CASE b # None
  <2>1. a # None
    BY <1>3 DEF Within
  <2>2. a \subseteq ActionScope
    <3>1. CASE \E e \in a : ~IsAction(e)
      <4>1. parse_action_scopes(a) = {}
        BY <2>1, <3>1 DEF parse_action_scopes, IsAction
      <4> QED
        BY <4>1, ScopesAssumption DEF action_scope_matches
    <3> QED
      BY <3>1 DEF IsAction
  <2>3. /\ \A e \in b : IsAction(e)
        /\ UNION {Actions(e) : e \in a} \subseteq UNION {Actions(e) : e \in b}
    BY <1>3, <2>2 DEF Within, IsAction
  <2>4. parse_action_scopes(a) = a /\ parse_action_scopes(b) = b
    BY <1>3, <2>1, <2>2, <2>3 DEF parse_action_scopes, IsAction
  <2>5. PICK s \in a : can_perform(s, x)
    BY <2>1, <2>4 DEF action_scope_matches
  <2>6. x \in Actions(s)
    BY <1>1, <2>5 DEF can_perform, Actions
  <2>7. PICK e \in b : x \in Actions(e)
    BY <2>3, <2>6
  <2>8. can_perform(e, x)
    BY <2>7 DEF can_perform, Actions
  <2> QED
    BY <1>3, <2>4, <2>8 DEF action_scope_matches
<1> QED
  BY <1>2, <1>3

\* A wider resource column opens the resource as well.
LEMMA WiderResources ==
    ASSUME NEW c \in Endpoints, NEW a \in ResourceColumns, NEW b \in ResourceColumns,
           Within(a, b, Covered, IsPattern),
           resource_scope_matches(c, parse_resource_scopes(a))
    PROVE  resource_scope_matches(c, parse_resource_scopes(b))
<1>1. \A e \in Words(Letters \cup {"*"}) : is_valid_pattern(e) <=> IsPattern(e)
  BY ValidIsPattern
<1>2. CASE b = None
  BY <1>2 DEF parse_resource_scopes, resource_scope_matches
<1>3. CASE b # None
  <2>1. /\ a # None /\ a \subseteq Words(Letters \cup {"*"})
        /\ b \subseteq Words(Letters \cup {"*"})
    BY <1>3 DEF Within, ResourceColumns
  <2>2. parse_resource_scopes(a) # None /\ parse_resource_scopes(b) # None
    BY <1>3, <2>1, ScopesAssumption DEF parse_resource_scopes
  <2>3. CASE c.crate_name = None
    BY <2>2, <2>3 DEF resource_scope_matches
  <2>4. CASE c.crate_name # None
    <3> DEFINE n == c.crate_name
    <3>1. n \in ResourceNames
      BY <2>4, EndpointFields
    <3>2. PICK p \in parse_resource_scopes(a) : matches(p, n)
      BY <2>2, <2>4 DEF resource_scope_matches
    <3>3. /\ \A e \in a : is_valid_pattern(e)
          /\ parse_resource_scopes(a) = a
      BY <2>1, <3>2 DEF parse_resource_scopes
    <3>4. /\ \A e \in b : IsPattern(e)
          /\ UNION {Covered(e) : e \in a} \subseteq UNION {Covered(e) : e \in b}
      BY <1>1, <1>3, <2>1, <3>3 DEF Within
    <3>5. parse_resource_scopes(b) = b
      BY <1>1, <1>3, <2>1, <3>4 DEF parse_resource_scopes
    <3>6. n \in Covered(p)
      BY <1>1, <2>1, <3>1, <3>2, <3>3, MatchesIsCovered
    <3>7. PICK e \in b : n \in Covered(e)
      BY <3>2, <3>3, <3>4, <3>6
    <3>8. matches(e, n)
      BY <2>1, <3>1, <3>4, <3>7, MatchesIsCovered
    <3> QED
      BY <2>2, <2>4, <3>5, <3>8 DEF resource_scope_matches
  <2> QED
    BY <2>3, <2>4
<1> QED
  BY <1>2, <1>3

\* A verdict is that of the check, on columns that stay as they are.
ScopeInv ==
    /\ endpoint \in Endpoints /\ columns \in Columns
    /\ verdict = "ok" => TokenPasses(endpoint, columns)

\* What passes with these columns passes with wider ones, and none of the lists it was
\* asked for is damaged.
LEMMA PassingIsMonotone == ScopeInv => ScopesOnlyRestrict
<1> SUFFICES ASSUME ScopeInv, verdict = "ok" PROVE ScopesOnlyRestrict
  BY DEF ScopesOnlyRestrict, NarrowerNeverGains, DamageFailsClosed
<1> DEFINE a == columns.action_scopes
           p == columns.resource_scopes
<1>1. /\ endpoint \in Endpoints /\ columns \in Columns
      /\ a \in ActionColumns /\ p \in ResourceColumns
  BY DEF ScopeInv, Columns
<1>2. /\ endpoint.allow_token
      /\ action_scope_matches(endpoint, parse_action_scopes(a))
      /\ resource_scope_matches(endpoint, parse_resource_scopes(p))
  BY DEF ScopeInv, TokenPasses
<1>3. ASSUME NEW b \in ActionColumns, Within(a, b, Actions, IsAction)
      PROVE  TokenPasses(endpoint, [columns EXCEPT !.action_scopes = b])
  <2>1. /\ [columns EXCEPT !.action_scopes = b].action_scopes = b
        /\ [columns EXCEPT !.action_scopes = b].resource_scopes = p
    BY <1>1 DEF Columns
  <2>2. action_scope_matches(endpoint, parse_action_scopes(b))
    BY <1>1, <1>2, <1>3, WiderActions
  <2> QED
    BY <1>2, <2>1, <2>2 DEF TokenPasses
<1>4. ASSUME NEW b \in ResourceColumns, Within(p, b, Covered, IsPattern)
      PROVE  TokenPasses(endpoint, [columns EXCEPT !.resource_scopes = b])
  <2>1. /\ [columns EXCEPT !.resource_scopes = b].action_scopes = a
        /\ [columns EXCEPT !.resource_scopes = b].resource_scopes = b
    BY <1>1 DEF Columns
  <2>2. resource_scope_matches(endpoint, parse_resource_scopes(b))
    BY <1>1, <1>2, <1>4, WiderResources
  <2> QED
    BY <1>2, <2>1, <2>2 DEF TokenPasses
<1>5. NarrowerNeverGains
  BY <1>3, <1>4 DEF NarrowerNeverGains, Wider
<1>6. ASSUME a # None, NEW e \in a PROVE IsAction(e)
  <2>1. CASE ~(a \subseteq ActionScope)
    <3>1. parse_action_scopes(a) = {}
      BY <1>6, <2>1 DEF parse_action_scopes
    <3> QED
      BY <1>2, <3>1, ScopesAssumption DEF action_scope_matches
  <2> QED
    BY <1>6, <2>1 DEF IsAction
<1>7. ASSUME p # None, endpoint.crate_name # None, NEW e \in p PROVE IsPattern(e)
  <2>1. CASE ~(\A d \in p : is_valid_pattern(d))
    <3>1. parse_resource_scopes(p) = {}
      BY <1>7, <2>1 DEF parse_resource_scopes
    <3> QED
      BY <1>2, <1>7, <3>1, ScopesAssumption DEF resource_scope_matches
  <2>2. e \in Words(Letters \cup {"*"})
    BY <1>1, <1>7 DEF ResourceColumns
  <2> QED
    BY <1>7, <2>1, <2>2, ValidIsPattern
<1> QED
  BY <1>5, <1>6, <1>7 DEF ScopesOnlyRestrict, DamageFailsClosed

\* Narrowing, emptying or damaging a token's columns never gains it anything, for lists of
\* any length, with names and patterns of any length over any letters.
THEOREM ScopesRestrict == ScopeSpec => []ScopesOnlyRestrict
<1>1. ScopeInit => ScopeInv
  BY DEF ScopeInit, ScopeInv
<1>2. ScopeInv /\ [ScopeNext]_scopeVars => ScopeInv'
  BY DEF ScopeInv, ScopeNext, check, scopeVars
<1> QED
  BY <1>1, <1>2, PassingIsMonotone, PTL DEF ScopeSpec

-----------------------------------------------------------------------------
(* The path.  After n segments the walk is Depth(n) levels below the root;   *)
(* the stack has one name for each level, the last one that led there and    *)
(* was not undone since.                                                    *)

Depth(n) == NamesIn(n) - UpsIn(n)

\* The name at level l, as far as the first n segments go.
At(l, n) == \E i \in 1 .. n : path[i] = stack[l] /\ Survives(i, n) /\ Depth(i) = l

PathInv ==
    /\ path \in Seq(Segments) /\ Len(path) >= 1 /\ path[1] = ""
    /\ next \in 1 .. Len(path) + 1
    /\ stack \in Seq(Names)
    /\ \A n \in 0 .. next - 1 : Depth(n) >= 0
    /\ Depth(next - 1) = Len(stack)
    /\ \A l \in 1 .. Len(stack) : At(l, next - 1)
    /\ outcome \in {"walking", "escapes", "unchanged", "rewritten"}
    /\ outcome = "escapes" => \E n \in 1 .. Len(path) : UpsIn(n) > NamesIn(n)
    /\ outcome \in {"unchanged", "rewritten"} =>
         next = Len(path) + 1 /\ (outcome = "unchanged" <=> JoinedPath(stack) = path)

\* Counting one more element of an interval.
LEMMA CountOneMore ==
    ASSUME NEW n \in Nat, NEW S
    PROVE  /\ Cardinality({i \in 1 .. n : i \in S}) \in Nat
           /\ Cardinality({i \in 1 .. n + 1 : i \in S}) =
                Cardinality({i \in 1 .. n : i \in S}) + (IF n + 1 \in S THEN 1 ELSE 0)
<1> DEFINE A == {i \in 1 .. n : i \in S}
           B == {i \in 1 .. n + 1 : i \in S}
<1>1. IsFiniteSet(1 .. n) /\ A \in SUBSET (1 .. n)
  BY FS_Interval
<1>2. IsFiniteSet(A) /\ Cardinality(A) \in Nat
  <2> HIDE DEF A
  <2> QED
    BY <1>1, FS_Subset, FS_CardinalityType
<1>3. n + 1 \notin A
  OBVIOUS
<1>4. CASE n + 1 \in S
  <2>1. B = A \cup {n + 1}
    BY <1>4
  <2> HIDE DEF A, B
  <2>2. Cardinality(B) = Cardinality(A) + 1
    BY <1>2, <1>3, <2>1, FS_AddElement
  <2> QED
    BY <1>2, <1>4, <2>2 DEF A, B
<1>5. CASE n + 1 \notin S
  <2>1. B = A
    BY <1>5
  <2> QED
    BY <1>2, <1>5, <2>1
<1> QED
  BY <1>4, <1>5

\* What each segment does to the depth.
LEMMA DepthStep ==
    ASSUME path \in Seq(Segments), NEW n \in Nat, n < Len(path)
    PROVE  /\ NamesIn(n) \in Nat /\ UpsIn(n) \in Nat /\ Depth(n) \in Int /\ Depth(n + 1) \in Int
           /\ path[n + 1] \in Names => Depth(n + 1) = Depth(n) + 1
           /\ path[n + 1] = ".." => Depth(n + 1) = Depth(n) - 1
           /\ path[n + 1] \in {"", "."} => Depth(n + 1) = Depth(n)
<1> DEFINE N == {i \in Nat : path[i] \in Names}
           U == {i \in Nat : path[i] = ".."}
<1>1. \A k \in {n, n + 1} : /\ NamesIn(k) = Cardinality({i \in 1 .. k : i \in N})
                            /\ UpsIn(k) = Cardinality({i \in 1 .. k : i \in U})
  <2>1. ASSUME NEW k \in {n, n + 1}
        PROVE  /\ {i \in 1 .. k : path[i] \in Names} = {i \in 1 .. k : i \in N}
               /\ {i \in 1 .. k : path[i] = ".."} = {i \in 1 .. k : i \in U}
    OBVIOUS
  <2> HIDE DEF N, U
  <2> QED
    BY <2>1 DEF NamesIn, UpsIn
<1>2. ".." \notin Names /\ "" \notin Names /\ "." \notin Names
  BY NormalizePathAssumption
<1>3. n + 1 \in N <=> path[n + 1] \in Names
  OBVIOUS
<1>4. n + 1 \in U <=> path[n + 1] = ".."
  OBVIOUS
<1> HIDE DEF N, U
<1>5. /\ NamesIn(n) \in Nat /\ NamesIn(n + 1) \in Nat
      /\ path[n + 1] \in Names => NamesIn(n + 1) = NamesIn(n) + 1
      /\ path[n + 1] \notin Names => NamesIn(n + 1) = NamesIn(n)
  BY <1>1, <1>3, CountOneMore
<1>6. /\ UpsIn(n) \in Nat /\ UpsIn(n + 1) \in Nat
      /\ path[n + 1] = ".." => UpsIn(n + 1) = UpsIn(n) + 1
      /\ path[n + 1] # ".." => UpsIn(n + 1) = UpsIn(n)
  BY <1>1, <1>4, CountOneMore
<1>7. /\ path[n + 1] \in Names => NamesIn(n + 1) = NamesIn(n) + 1 /\ UpsIn(n + 1) = UpsIn(n)
      /\ path[n + 1] = ".." => NamesIn(n + 1) = NamesIn(n) /\ UpsIn(n + 1) = UpsIn(n) + 1
      /\ path[n + 1] \in {"", "."} => NamesIn(n + 1) = NamesIn(n) /\ UpsIn(n + 1) = UpsIn(n)
  BY <1>2, <1>5, <1>6, Zenon
<1>8. /\ NamesIn(n) \in Nat /\ UpsIn(n) \in Nat
      /\ NamesIn(n + 1) \in Nat /\ UpsIn(n + 1) \in Nat
  BY <1>5, <1>6
<1>9. ASSUME path[n + 1] \in Names PROVE Depth(n + 1) = Depth(n) + 1
  <2>1. NamesIn(n + 1) = NamesIn(n) + 1 /\ UpsIn(n + 1) = UpsIn(n)
    BY <1>7, <1>9, Zenon
  <2> QED
    BY <1>8, <2>1 DEF Depth
<1>10. ASSUME path[n + 1] = ".." PROVE Depth(n + 1) = Depth(n) - 1
  <2>1. NamesIn(n + 1) = NamesIn(n) /\ UpsIn(n + 1) = UpsIn(n) + 1
    BY <1>7, <1>10, Zenon
  <2> QED
    BY <1>8, <2>1 DEF Depth
<1>11. ASSUME path[n + 1] \in {"", "."} PROVE Depth(n + 1) = Depth(n)
  <2>1. NamesIn(n + 1) = NamesIn(n) /\ UpsIn(n + 1) = UpsIn(n)
    BY <1>7, <1>11, Zenon
  <2> QED
    BY <1>8, <2>1 DEF Depth
<1>12. Depth(n) \in Int /\ Depth(n + 1) \in Int
  BY <1>8 DEF Depth
<1> QED
  BY <1>8, <1>9, <1>10, <1>11, <1>12, Zenon

\* The counts are numbers.
LEMMA CountTypes ==
    ASSUME NEW n \in Nat
    PROVE  NamesIn(n) \in Nat /\ UpsIn(n) \in Nat
<1> DEFINE N == {i \in 1 .. n : path[i] \in Names}
           U == {i \in 1 .. n : path[i] = ".."}
<1>1. IsFiniteSet(1 .. n) /\ N \in SUBSET (1 .. n) /\ U \in SUBSET (1 .. n)
  BY FS_Interval
<1> HIDE DEF N, U
<1>2. Cardinality(N) \in Nat /\ Cardinality(U) \in Nat
  BY <1>1, FS_Subset, FS_CardinalityType
<1> QED
  BY <1>2 DEF NamesIn, UpsIn, N, U

\* The walk starts at the root.
LEMMA DepthAtStart == NamesIn(0) = 0 /\ UpsIn(0) = 0 /\ Depth(0) = 0
<1>1. 1 .. 0 = {}
  OBVIOUS
<1>2. {i \in 1 .. 0 : path[i] \in Names} = {} /\ {i \in 1 .. 0 : path[i] = ".."} = {}
  BY <1>1
<1> QED
  BY <1>2, FS_EmptySet DEF NamesIn, UpsIn, Depth

\* Depths are integers as far as the path goes, and a name leads one level down.
LEMMA DepthFacts ==
    ASSUME path \in Seq(Segments), NEW n \in 1 .. Len(path)
    PROVE  /\ Depth(n) \in Int /\ Depth(n - 1) \in Int
           /\ path[n] \in Names => Depth(n) = Depth(n - 1) + 1
           /\ path[n] = ".." => Depth(n) = Depth(n - 1) - 1
           /\ path[n] \in {"", "."} => Depth(n) = Depth(n - 1)
<1> DEFINE k == n - 1
<1>1. k \in Nat /\ k < Len(path) /\ k + 1 = n
  OBVIOUS
<1> HIDE DEF k
<1>2. /\ Depth(k) \in Int /\ Depth(k + 1) \in Int
      /\ path[k + 1] \in Names => Depth(k + 1) = Depth(k) + 1
      /\ path[k + 1] = ".." => Depth(k + 1) = Depth(k) - 1
      /\ path[k + 1] \in {"", "."} => Depth(k + 1) = Depth(k)
  BY <1>1, DepthStep
<1>3. n - 1 = k
  BY DEF k
<1> QED
  BY <1>1, <1>2, <1>3, Zenon

\* One segment that is not above the root: the stack has the names of the levels again.
LEMMA SegmentStep ==
    ASSUME PathInv, outcome = "walking", next <= Len(path),
           UNCHANGED <<path, outcome>>, next' = next + 1,
           stack' \in Seq(Names), Depth(next) = Len(stack'),
           \A l \in 1 .. Len(stack') :
             \/ l <= Len(stack) /\ stack'[l] = stack[l]
             \/ l = Len(stack') /\ stack'[l] = path[next] /\ path[next] \in Names
    PROVE  PathInv'
<1>1. /\ path' = path /\ outcome' = "walking"
      /\ path \in Seq(Segments) /\ Len(path) \in Nat /\ next \in 1 .. Len(path)
      /\ Len(stack) \in Nat /\ Len(stack') \in Nat /\ next \in Nat
  <2>1. path \in Seq(Segments) /\ stack \in Seq(Names) /\ next \in 1 .. Len(path) + 1
    BY DEF PathInv
  <2>2. Len(path) \in Nat /\ Len(stack) \in Nat /\ Len(stack') \in Nat
    BY <2>1
  <2> QED
    BY <2>1, <2>2
<1>2. /\ \A n : Depth(n)' = Depth(n)
      /\ \A i, n : Survives(i, n)' <=> Survives(i, n)
  BY <1>1 DEF Depth, NamesIn, UpsIn, Survives
<1>3. next' - 1 = next /\ next' \in 1 .. Len(path) + 1
  BY <1>1
<1>4. \A n \in 0 .. next : Depth(n) >= 0
  <2>1. \A n \in 0 .. next : n \in 0 .. next - 1 \/ n = next
    BY <1>1
  <2>2. Depth(next) >= 0
    BY <1>1
  <2> QED
    BY <2>1, <2>2 DEF PathInv
<1>5. ASSUME NEW l \in 1 .. Len(stack')
      PROVE  \E i \in 1 .. next : path[i] = stack'[l] /\ Survives(i, next) /\ Depth(i) = l
  <2>1. CASE l <= Len(stack) /\ stack'[l] = stack[l]
    <3>1. l \in 1 .. Len(stack)
      BY <1>1, <2>1
    <3>2. PICK i \in 1 .. next - 1 : path[i] = stack[l] /\ Survives(i, next - 1) /\ Depth(i) = l
      BY <3>1 DEF PathInv, At
    <3>3. \A m \in i .. next : m \in i .. next - 1 \/ m = next
      BY <1>1
    <3>4. Depth(next) >= Depth(i)
      BY <1>1, <3>2
    <3>5. Survives(i, next)
      BY <3>2, <3>3, <3>4 DEF Survives, Depth
    <3>6. i \in 1 .. next
      BY <1>1
    <3> QED
      BY <2>1, <3>2, <3>5, <3>6
  <2>2. CASE l = Len(stack') /\ stack'[l] = path[next] /\ path[next] \in Names
    <3>1. \A m \in next .. next : m = next
      BY <1>1
    <3>2. Depth(next) \in Int
      BY <1>1, DepthFacts
    <3>3. Depth(next) >= Depth(next)
      BY <3>2
    <3>4. Survives(next, next)
      BY <2>2, <3>1, <3>3 DEF Survives, Depth
    <3>5. next \in 1 .. next
      BY <1>1
    <3> QED
      BY <2>2, <3>4, <3>5
  <2> QED
    BY <2>1, <2>2
<1>6. \A l \in 1 .. Len(stack') : At(l, next - 1)'
  <2>1. ASSUME NEW l \in 1 .. Len(stack') PROVE At(l, next - 1)'
    <3>1. At(l, next - 1)' <=>
            \E i \in 1 .. next' - 1 : path'[i] = stack'[l] /\ Survives(i, next - 1)' /\ Depth(i)' = l
      BY DEF At
    <3>2. \A i : Survives(i, next - 1)' <=> Survives(i, next)
      BY <1>1, <1>3 DEF Survives, NamesIn, UpsIn
    <3> QED
      BY <1>1, <1>2, <1>3, <1>5, <3>1, <3>2
  <2> QED
    BY <2>1
<1>7. (\A n \in 0 .. next - 1 : Depth(n) >= 0)' /\ (Depth(next - 1) = Len(stack))'
  <2>1. Depth(next - 1)' = Depth(next)
    BY <1>1, <1>3 DEF Depth, NamesIn, UpsIn
  <2>2. \A n \in 0 .. next' - 1 : Depth(n)' >= 0
    BY <1>2, <1>3, <1>4
  <2> QED
    BY <2>1, <2>2
<1> QED
  BY <1>1, <1>3, <1>6, <1>7 DEF PathInv

\* A step of the middleware that leaves path and stack alone.
LEMMA VerdictStep ==
    ASSUME PathInv, UNCHANGED <<path, next, stack>>,
           outcome' \in {"walking", "escapes", "unchanged", "rewritten"},
           outcome' = "escapes" => \E n \in 1 .. Len(path) : UpsIn(n) > NamesIn(n),
           outcome' \in {"unchanged", "rewritten"} =>
             next = Len(path) + 1 /\ (outcome' = "unchanged" <=> JoinedPath(stack) = path)
    PROVE  PathInv'
<1>1. path' = path /\ next' = next /\ stack' = stack
  OBVIOUS
<1>2. /\ \A l : At(l, next - 1)' <=> At(l, next - 1)
      /\ \A n : Depth(n)' = Depth(n) /\ NamesIn(n)' = NamesIn(n) /\ UpsIn(n)' = UpsIn(n)
      /\ Depth(next - 1)' = Depth(next - 1)
  BY <1>1 DEF At, Survives, Depth, NamesIn, UpsIn
<1>3. JoinedPath(stack)' = JoinedPath(stack)
  BY <1>1 DEF JoinedPath
<1>4. /\ path' \in Seq(Segments) /\ Len(path') >= 1 /\ path'[1] = ""
      /\ next' \in 1 .. Len(path') + 1 /\ stack' \in Seq(Names)
  BY <1>1 DEF PathInv
<1>5. /\ \A n \in 0 .. next' - 1 : Depth(n)' >= 0
      /\ Depth(next - 1)' = Len(stack')
      /\ \A l \in 1 .. Len(stack') : At(l, next - 1)'
  BY <1>1, <1>2 DEF PathInv
<1>6. /\ outcome' = "escapes" => \E n \in 1 .. Len(path') : UpsIn(n)' > NamesIn(n)'
      /\ outcome' \in {"unchanged", "rewritten"} =>
           next' = Len(path') + 1 /\ (outcome' = "unchanged" <=> JoinedPath(stack)' = path')
  BY <1>1, <1>2, <1>3
<1> QED
  BY <1>4, <1>5, <1>6 DEF PathInv

\* The loop of normalize_path, its end and the middleware.
LEMMA PathStep == PathInv /\ [PathNext]_pathVars => PathInv'
<1> SUFFICES ASSUME PathInv, [PathNext]_pathVars PROVE PathInv'
  OBVIOUS
<1> DEFINE d == Len(stack)
<1>1. /\ path \in Seq(Segments) /\ Len(path) \in Nat /\ next \in 1 .. Len(path) + 1
      /\ stack \in Seq(Names) /\ d \in Nat
  <2>1. path \in Seq(Segments) /\ next \in 1 .. Len(path) + 1 /\ stack \in Seq(Names)
    BY DEF PathInv
  <2> QED
    BY <2>1
<1>2. Depth(next - 1) = d
  BY DEF PathInv
<1>3. CASE Skip
  <2>1. /\ outcome = "walking" /\ next <= Len(path) /\ path[next] \in {"", "."}
        /\ UNCHANGED <<path, outcome>> /\ next' = next + 1 /\ stack' = stack
    BY <1>3 DEF Skip, Walking
  <2>2. next \in 1 .. Len(path)
    <3>1. next <= Len(path)
      BY <2>1
    <3> QED
      BY <1>1, <3>1
  <2>3. Depth(next) = Len(stack')
    BY <1>1, <1>2, <2>1, <2>2, DepthFacts, Zenon
  <2>4. stack' = stack /\ \A l \in 1 .. d : l <= d
    <3>1. \A l \in 1 .. d : l <= d
      BY <1>1
    <3> QED
      BY <2>1, <3>1, Zenon
  <2>5. \A l \in 1 .. Len(stack') : l <= Len(stack) /\ stack'[l] = stack[l]
    BY <2>4, Zenon
  <2> QED
    BY <1>1, <2>1, <2>3, <2>5, SegmentStep
<1>4. CASE Push
  <2>1. /\ outcome = "walking" /\ next <= Len(path) /\ path[next] \in Names
        /\ UNCHANGED <<path, outcome>> /\ next' = next + 1 /\ stack' = Append(stack, path[next])
    BY <1>4 DEF Push, Walking
  <2>2. next \in 1 .. Len(path)
    BY <1>1, <2>1
  <2>3. /\ stack' \in Seq(Names) /\ Len(stack') = d + 1
        /\ \A l \in 1 .. d : stack'[l] = stack[l]
        /\ stack'[d + 1] = path[next]
    BY <1>1, <2>1, AppendProperties
  <2>4. Depth(next) = Len(stack')
    BY <1>1, <1>2, <2>1, <2>2, <2>3, DepthFacts, Zenon
  <2>5. ASSUME NEW l \in 1 .. Len(stack')
        PROVE  \/ l <= Len(stack) /\ stack'[l] = stack[l]
               \/ l = Len(stack') /\ stack'[l] = path[next] /\ path[next] \in Names
    <3>1. l \in 1 .. d \/ l = d + 1
      BY <1>1, <2>3
    <3> QED
      BY <1>1, <2>1, <2>3, <3>1
  <2> QED
    BY <2>1, <2>3, <2>4, <2>5, SegmentStep
<1>5. CASE Up /\ stack # << >>
  <2>1. /\ outcome = "walking" /\ next <= Len(path) /\ path[next] = ".."
        /\ UNCHANGED <<path, outcome>> /\ next' = next + 1 /\ stack' = SubSeq(stack, 1, Len(stack) - 1)
    BY <1>5 DEF Up, Walking
  <2>2. next \in 1 .. Len(path)
    BY <1>1, <2>1
  <2>3. d >= 1
    BY <1>1, <1>5
  <2>4. /\ stack' \in Seq(Names) /\ Len(stack') = d - 1
        /\ \A l \in 1 .. d - 1 : stack'[l] = stack[l]
    <3>1. \A l \in 1 .. d - 1 : stack[l] \in Names
      BY <1>1
    <3>2. 1 \in Int /\ d - 1 \in Int
      BY <1>1
    <3>3. /\ SubSeq(stack, 1, d - 1) \in Seq(Names)
          /\ Len(SubSeq(stack, 1, d - 1)) = (IF 1 <= d - 1 THEN d - 1 - 1 + 1 ELSE 0)
          /\ \A l \in 1 .. d - 1 - 1 + 1 : SubSeq(stack, 1, d - 1)[l] = stack[1 + l - 1]
      BY <3>1, <3>2, SubSeqProperties
    <3>4. d - 1 - 1 + 1 = d - 1 /\ \A l \in 1 .. d - 1 : 1 + l - 1 = l
      BY <1>1
    <3> HIDE DEF d
    <3> QED
      BY <1>1, <2>1, <2>3, <3>3, <3>4 DEF d
  <2>5. Depth(next) = Len(stack')
    BY <1>1, <1>2, <2>1, <2>2, <2>4, DepthFacts, Zenon
  <2>6. \A l \in 1 .. Len(stack') : l <= Len(stack) /\ stack'[l] = stack[l]
    BY <1>1, <2>4
  <2> QED
    BY <2>1, <2>4, <2>5, <2>6, SegmentStep
<1>6. CASE Up /\ stack = << >>
  <2>1. /\ outcome = "walking" /\ next <= Len(path) /\ path[next] = ".."
        /\ outcome' = "escapes" /\ UNCHANGED <<path, next, stack>>
    BY <1>6 DEF Up, Walking
  <2>2. next \in 1 .. Len(path) /\ d = 0
    BY <1>1, <1>6, <2>1
  <2>3. Depth(next) = d - 1
    BY <1>1, <1>2, <2>1, <2>2, DepthFacts, Zenon
  <2>4. NamesIn(next) \in Nat /\ UpsIn(next) \in Nat
    BY <1>1, <2>2, CountTypes
  <2>5. UpsIn(next) > NamesIn(next)
    BY <2>2, <2>3, <2>4 DEF Depth
  <2> QED
    BY <2>1, <2>2, <2>5, VerdictStep
<1>7. CASE FinishPath
  <2>1. /\ outcome = "walking" /\ next > Len(path) /\ UNCHANGED <<path, next, stack>>
        /\ outcome' = IF JoinedPath(stack) = path THEN "unchanged" ELSE "rewritten"
    BY <1>7 DEF FinishPath
  <2>2. next = Len(path) + 1
    BY <1>1, <2>1
  <2>3. /\ outcome' \in {"unchanged", "rewritten"}
        /\ outcome' = "unchanged" <=> JoinedPath(stack) = path
    BY <2>1
  <2> QED
    BY <2>1, <2>2, <2>3, VerdictStep
<1>8. CASE UNCHANGED pathVars
  BY <1>8, VerdictStep DEF pathVars, PathInv
<1> QED
  BY <1>3, <1>4, <1>5, <1>6, <1>7, <1>8 DEF PathNext

\* The state before the first segment.
LEMMA PathStart == PathInit => PathInv
<1> SUFFICES ASSUME PathInit PROVE PathInv
  OBVIOUS
<1>1. PICK n \in 1 .. MaxSegments : path \in [1 .. n -> Segments] /\ path[1] = ""
  BY DEF PathInit, AbsolutePaths
<1>2. n \in Nat /\ n >= 1
  <2>1. MaxSegments \in Nat
    BY NormalizePathAssumption
  <2> QED
    BY <2>1
<1>3. path \in Seq(Segments) /\ Len(path) = n
  <2>1. path \in [1 .. n -> Segments]
    BY <1>1
  <2> QED
    BY <1>2, <2>1
<1>4. next = 1 /\ stack = << >> /\ outcome = "walking"
  BY DEF PathInit
<1>5. next - 1 = 0 /\ Len(stack) = 0 /\ stack \in Seq(Names) /\ next \in 1 .. Len(path) + 1
  BY <1>2, <1>3, <1>4
<1>6. \A m \in 0 .. next - 1 : Depth(m) >= 0
  BY <1>4, DepthAtStart
<1>7. Depth(next - 1) = Len(stack)
  BY <1>5, DepthAtStart
<1>8. \A l \in 1 .. Len(stack) : At(l, next - 1)
  BY <1>5
<1> QED
  BY <1>1, <1>2, <1>3, <1>4, <1>5, <1>6, <1>7, <1>8 DEF PathInv

\* Of two names that no later ".." undoes, the later one is deeper.
LEMMA SurvivorsDescend ==
    ASSUME path \in Seq(Segments), NEW n \in 0 .. Len(path),
           NEW i \in 1 .. n, Survives(i, n), NEW j \in 1 .. n, Survives(j, n), i < j
    PROVE  Depth(i) < Depth(j)
<1>1. Len(path) \in Nat /\ i \in 1 .. Len(path) /\ j \in 1 .. Len(path) /\ n \in Nat
  OBVIOUS
<1>2. j - 1 \in i .. n
  BY <1>1
<1>3. Depth(j - 1) >= Depth(i) /\ path[j] \in Names
  BY <1>2 DEF Survives, Depth
<1>4. Depth(i) \in Int /\ Depth(j) \in Int /\ Depth(j - 1) \in Int
  BY <1>1, DepthFacts
<1>5. Depth(j) = Depth(j - 1) + 1
  BY <1>1, <1>3, DepthFacts, Zenon
<1> QED
  BY <1>3, <1>4, <1>5

\* Every name that survives is in its place on the stack.
LEMMA StackIsSurvivors ==
    ASSUME PathInv, next = Len(path) + 1
    PROVE  /\ Len(stack) = Cardinality({i \in 1 .. Len(path) : Survives(i, Len(path))})
           /\ \A i \in 1 .. Len(path) : Survives(i, Len(path)) =>
                /\ Depth(i) \in 1 .. Len(stack) /\ stack[Depth(i)] = path[i]
                /\ Cardinality({j \in 1 .. i : Survives(j, Len(path))}) = Depth(i)
<1> DEFINE n == Len(path)
           d == Len(stack)
           Live == {i \in 1 .. n : Survives(i, n)}
<1>1. path \in Seq(Segments) /\ stack \in Seq(Names) /\ n \in Nat /\ d \in Nat /\ next - 1 = n
  <2>1. path \in Seq(Segments) /\ stack \in Seq(Names)
    BY DEF PathInv
  <2>2. n \in Nat /\ d \in Nat
    BY <2>1
  <2> QED
    BY <2>1, <2>2
<1>2. /\ \A m \in 0 .. n : Depth(m) >= 0
      /\ Depth(n) = d
      /\ \A l \in 1 .. d : \E i \in 1 .. n : path[i] = stack[l] /\ Survives(i, n) /\ Depth(i) = l
  BY <1>1 DEF PathInv, At
<1>3. \A i, j \in Live : i < j => Depth(i) < Depth(j)
  BY <1>1, SurvivorsDescend
<1>4. ASSUME NEW i \in Live PROVE Depth(i) \in 1 .. d
  <2>1. i \in 1 .. n /\ path[i] \in Names /\ n \in i .. n
    BY <1>1 DEF Survives
  <2>2. Depth(n) >= Depth(i)
    BY <2>1 DEF Survives, Depth
  <2>3. Depth(i) = Depth(i - 1) + 1 /\ Depth(i) \in Int /\ Depth(i - 1) \in Int
    BY <1>1, <2>1, DepthFacts, Zenon
  <2>4. Depth(i - 1) >= 0
    <3>1. i - 1 \in 0 .. n
      BY <1>1, <2>1
    <3> QED
      BY <1>2, <3>1
  <2> QED
    BY <1>1, <1>2, <2>2, <2>3, <2>4
<1>5. \A i, j \in Live : Depth(i) = Depth(j) => i = j
  <2> TAKE i \in Live, j \in Live
  <2>1. i \in Int /\ j \in Int /\ Depth(i) \in Int /\ Depth(j) \in Int
    BY <1>1, <1>4
  <2> QED
    BY <1>3, <2>1
<1>6. \A l \in 1 .. d : \E i \in Live : path[i] = stack[l] /\ Depth(i) = l
  BY <1>2
<1>7. IsFiniteSet(1 .. n) /\ Live \in SUBSET (1 .. n)
  BY <1>1, FS_Interval
<1> HIDE DEF Live
<1>8. ASSUME NEW k \in 0 .. d, NEW S \in SUBSET Live,
             \A i \in Live : i \in S <=> Depth(i) <= k
      PROVE  Cardinality(S) = k
  <2> DEFINE f == [i \in S |-> Depth(i)]
  <2>1. \A i \in S : i \in Live /\ Depth(i) \in 1 .. k
    BY <1>1, <1>4, <1>8
  <2>2. f \in Injection(S, 1 .. k)
    BY <1>5, <2>1 DEF Injection, IsInjective
  <2>3. \A l \in 1 .. k : \E i \in S : Depth(i) = l
    <3>1. \A l \in 1 .. k : l \in 1 .. d /\ l <= k
      BY <1>1
    <3> QED
      BY <1>6, <1>8, <3>1
  <2>4. f \in Surjection(S, 1 .. k)
    BY <2>1, <2>3 DEF Surjection
  <2>5. IsFiniteSet(S)
    BY <1>7, FS_Subset
  <2>6. k \in Nat /\ IsFiniteSet(1 .. k) /\ Cardinality(1 .. k) = k
    BY <1>1, FS_Interval
  <2> HIDE DEF f
  <2> QED
    BY <2>2, <2>4, <2>5, <2>6, FS_Surjection
<1>9. Cardinality(Live) = d
  <2>1. d \in 0 .. d /\ \A i \in Live : Depth(i) <= d
    BY <1>1, <1>4
  <2> QED
    BY <1>8, <2>1
<1>10. ASSUME NEW i \in Live
       PROVE  /\ stack[Depth(i)] = path[i]
              /\ Cardinality({j \in 1 .. i : Survives(j, n)}) = Depth(i)
  <2> DEFINE S == {j \in 1 .. i : Survives(j, n)}
  <2>1. PICK j \in Live : path[j] = stack[Depth(i)] /\ Depth(j) = Depth(i)
    BY <1>4, <1>6
  <2>2. j = i
    BY <1>5, <2>1
  <2>3. Live \subseteq 1 .. n /\ i \in 1 .. n
    BY <1>7
  <2>4. S = {j1 \in Live : j1 <= i}
    BY <1>1, <2>3 DEF Live
  <2>5. ASSUME NEW m \in Live PROVE m \in S <=> Depth(m) <= Depth(i)
    <3>1. m \in Int /\ i \in Int /\ Depth(m) \in Int /\ Depth(i) \in Int
      BY <1>1, <1>4, <2>3
    <3>2. m <= i <=> Depth(m) <= Depth(i)
      BY <1>3, <3>1
    <3> QED
      BY <2>4, <3>2
  <2>6. Depth(i) \in 0 .. d /\ S \in SUBSET Live
    BY <1>1, <1>4, <2>4
  <2> HIDE DEF S
  <2>7. Cardinality(S) = Depth(i)
    BY <1>8, <2>5, <2>6
  <2> QED
    BY <2>1, <2>2, <2>7 DEF S
<1> QED
  BY <1>4, <1>9, <1>10 DEF Live

\* A sequence over a set is one over any larger set.
LEMMA SeqWiden ==
    ASSUME NEW A, NEW B, A \subseteq B, NEW s \in Seq(A)
    PROVE  s \in Seq(B)
OBVIOUS

\* A sequence with one more element in front.
LEMMA Prefixed ==
    ASSUME NEW S, NEW e \in S, NEW s \in Seq(S)
    PROVE  /\ <<e>> \o s \in Seq(S)
           /\ Len(<<e>> \o s) = 1 + Len(s)
           /\ (<<e>> \o s)[1] = e
           /\ \A i \in 2 .. 1 + Len(s) : (<<e>> \o s)[i] = s[i - 1]
<1> DEFINE root == <<e>>
<1>1. root \in Seq(S) /\ Len(root) = 1 /\ root[1] = e
  OBVIOUS
<1>2. Len(s) \in Nat
  BY LenProperties
<1> HIDE DEF root
<1>3. /\ root \o s \in Seq(S)
      /\ Len(root \o s) = Len(root) + Len(s)
      /\ \A i \in 1 .. Len(root) + Len(s) :
            (root \o s)[i] = IF i <= Len(root) THEN root[i] ELSE s[i - Len(root)]
  BY <1>1, ConcatProperties
<1> DEFINE t == root \o s
<1>4. t \in Seq(S) /\ Len(t) = 1 + Len(s)
  BY <1>1, <1>3
<1>5. \A i \in 1 .. 1 + Len(s) : t[i] = IF i <= 1 THEN root[i] ELSE s[i - 1]
  BY <1>1, <1>3
<1> HIDE DEF t
<1>6. t[1] = e
  BY <1>1, <1>2, <1>5
<1>7. \A i \in 2 .. 1 + Len(s) : t[i] = s[i - 1]
  BY <1>2, <1>5
<1> QED
  BY <1>4, <1>6, <1>7 DEF t, root

\* What normalize_path writes for a stack that is not empty: an empty segment, which is
\* the leading slash, and the stack.
LEMMA Rooted ==
    ASSUME NEW s \in Seq(Names)
    PROVE  /\ <<"">> \o s \in Seq(Segments)
           /\ Len(<<"">> \o s) = 1 + Len(s)
           /\ (<<"">> \o s)[1] = ""
           /\ \A i \in 2 .. 1 + Len(s) : (<<"">> \o s)[i] = s[i - 1]
<1>1. "" \in Segments /\ Names \subseteq Segments
  BY Zenon DEF Segments
<1>2. s \in Seq(Segments)
  BY <1>1, SeqWiden, Zenon
<1> DEFINE e == ""
           S == Segments
<1>3. e \in S /\ s \in Seq(S)
  BY <1>1, <1>2
<1> HIDE DEF e, S
<1>4. /\ <<e>> \o s \in Seq(S)
      /\ Len(<<e>> \o s) = 1 + Len(s)
      /\ (<<e>> \o s)[1] = e
      /\ \A i \in 2 .. 1 + Len(s) : (<<e>> \o s)[i] = s[i - 1]
  BY <1>3, Prefixed
<1> QED
  BY <1>4 DEF e, S

\* A path without a name leaves nothing on the stack.
LEMMA NoNamesNoStack ==
    ASSUME PathInv, next = Len(path) + 1, \A i \in 1 .. Len(path) : path[i] \notin Names
    PROVE  stack = << >>
<1>1. stack \in Seq(Names) /\ path \in Seq(Segments)
  BY DEF PathInv
<1>2. Len(path) \in Nat /\ next - 1 = Len(path)
  BY <1>1
<1>3. ASSUME Len(stack) >= 1 PROVE FALSE
  <2>1. 1 \in 1 .. Len(stack)
    BY <1>1, <1>3
  <2>2. PICK i \in 1 .. Len(path) : Survives(i, Len(path))
    BY <1>2, <2>1 DEF PathInv, At
  <2> QED
    BY <2>2 DEF Survives
<1> QED
  BY <1>1, <1>3

\* A path of names only is its own stack.
LEMMA NamesOnlyStack ==
    ASSUME PathInv, next = Len(path) + 1, Len(path) > 1,
           \A i \in 2 .. Len(path) : path[i] \in Names
    PROVE  stack # << >> /\ path = <<"">> \o stack
<1> DEFINE n == Len(path)
<1>1. path \in Seq(Segments) /\ stack \in Seq(Names) /\ n \in Nat /\ Len(stack) \in Nat
  <2>1. path \in Seq(Segments) /\ stack \in Seq(Names)
    BY DEF PathInv
  <2> QED
    BY <2>1
<1>2. next - 1 = n
  BY <1>1
<1>3. "" \notin Names /\ ".." \notin Names /\ path[1] = ""
  BY NormalizePathAssumption DEF PathInv
<1>4. path[1] \notin Names /\ \A i \in 1 .. n : path[i] # ".."
  <2>1. \A i \in 1 .. n : i = 1 \/ i \in 2 .. n
    BY <1>1
  <2> QED
    BY <1>3, <2>1, Zenon
<1>5. ASSUME NEW m \in 1 .. n PROVE Depth(m) = m - 1
  <2>1. {i \in 1 .. m : path[i] \in Names} = 2 .. m
    <3>1. \A i \in 1 .. m : i = 1 \/ i \in 2 .. n
      BY <1>1
    <3>2. \A i \in 1 .. m : path[i] \in Names <=> i # 1
      <4>1. 1 \notin 2 .. n
        BY <1>1
      <4> QED
        BY <1>4, <3>1, <4>1, Zenon
    <3>3. \A i : i \in 2 .. m <=> i \in 1 .. m /\ i # 1
      BY <1>1
    <3> QED
      BY <3>2, <3>3, Zenon
  <2>2. {i \in 1 .. m : path[i] = ".."} = {}
    <3>1. \A i \in 1 .. m : i \in 1 .. n
      BY <1>1
    <3> QED
      BY <1>4, <3>1, Zenon
  <2>3. m \in Int /\ m >= 1 /\ Cardinality(2 .. m) = m - 1
    BY <1>1, FS_Interval
  <2>4. NamesIn(m) = m - 1 /\ UpsIn(m) = 0
    BY <2>1, <2>2, <2>3, FS_EmptySet DEF NamesIn, UpsIn
  <2> QED
    BY <2>3, <2>4 DEF Depth
<1>6. Len(stack) = n - 1 /\ n >= 2
  <2>1. n \in 1 .. n /\ n >= 2
    BY <1>1
  <2>2. Depth(n) = Len(stack)
    BY <1>2 DEF PathInv
  <2> QED
    BY <1>5, <2>1, <2>2
<1>7. ASSUME NEW l \in 1 .. n - 1 PROVE stack[l] = path[l + 1]
  <2>1. PICK i \in 1 .. n : path[i] = stack[l] /\ Depth(i) = l
    <3>1. l \in 1 .. Len(stack)
      BY <1>6
    <3> QED
      BY <1>2, <3>1 DEF PathInv, At
  <2>2. i - 1 = l
    BY <1>5, <2>1
  <2>3. i = l + 1
    BY <1>1, <2>2
  <2> QED
    BY <2>1, <2>3
<1>8. path = <<"">> \o stack
  <2> DEFINE t == <<"">> \o stack
  <2>1. t = <<"">> \o stack
    OBVIOUS
  <2> HIDE DEF t
  <2>2. /\ t \in Seq(Segments) /\ Len(t) = 1 + Len(stack) /\ t[1] = ""
        /\ \A i \in 2 .. 1 + Len(stack) : t[i] = stack[i - 1]
    BY <1>1, <2>1, Rooted
  <2>3. Len(t) = n
    <3>1. Len(t) = 1 + Len(stack)
      BY <2>2
    <3> HIDE DEF n
    <3> QED
      BY <1>1, <1>6, <3>1
  <2>4. ASSUME NEW i \in 1 .. n PROVE t[i] = path[i]
    <3>1. CASE i = 1
      BY <1>3, <2>2, <3>1, Zenon
    <3>2. CASE i # 1
      <4>1. i \in 2 .. 1 + Len(stack) /\ i - 1 \in 1 .. n - 1 /\ i - 1 + 1 = i
        BY <1>1, <1>6, <3>2
      <4>2. t[i] = stack[i - 1]
        BY <2>2, <4>1, Zenon
      <4> QED
        BY <1>7, <4>1, <4>2
    <3> QED
      BY <3>1, <3>2
  <2>5. path = t
    BY <1>1, <2>2, <2>3, <2>4, SeqEqual
  <2> QED
    BY <2>5 DEF t
<1>9. stack # << >>
  <2>1. Len(<< >>) = 0
    OBVIOUS
  <2> QED
    BY <1>6, <2>1
<1> QED
  BY <1>8, <1>9

\* normalize_path refuses exactly the paths that lead above the root, resolves the others
\* as a walk down the tree would, and leaves normal paths alone: for any names and paths of
\* any length.
THEOREM PathsAreNormalized == PathSpec => []PathIsNormalized
<1>1. PathInv => RefusedIffEscapes
  <2> SUFFICES ASSUME PathInv PROVE RefusedIffEscapes
    OBVIOUS
  <2>1. ASSUME outcome \in {"unchanged", "rewritten"}, NEW n \in 1 .. Len(path)
        PROVE  UpsIn(n) <= NamesIn(n)
    <3>1. Len(path) \in Nat /\ next - 1 = Len(path)
      <4>1. path \in Seq(Segments) /\ next = Len(path) + 1
        BY <2>1 DEF PathInv
      <4> QED
        BY <4>1
    <3>2. n \in Nat /\ n \in 0 .. next - 1
      BY <3>1
    <3>3. Depth(n) >= 0
      BY <3>2 DEF PathInv
    <3>4. NamesIn(n) \in Nat /\ UpsIn(n) \in Nat
      BY <3>2, CountTypes
    <3> QED
      BY <3>3, <3>4 DEF Depth
  <2> QED
    BY <2>1 DEF RefusedIffEscapes, PathInv
<1>2. PathInv => ResolvesThePath
  <2> SUFFICES ASSUME PathInv, outcome \in {"unchanged", "rewritten"} PROVE ResolvesThePath
    BY DEF ResolvesThePath
  <2>1. next = Len(path) + 1
    BY DEF PathInv
  <2> QED
    BY <2>1, StackIsSurvivors DEF ResolvesThePath
<1>3. PathInv => UnchangedIffNormal
  <2> SUFFICES ASSUME PathInv, outcome \in {"unchanged", "rewritten"} PROVE UnchangedIffNormal
    BY DEF UnchangedIffNormal
  <2>1. next = Len(path) + 1 /\ (outcome = "unchanged" <=> JoinedPath(stack) = path)
    BY DEF PathInv
  <2>2. stack \in Seq(Names) /\ Len(stack) \in Nat
    <3>1. stack \in Seq(Names)
      BY DEF PathInv
    <3> QED
      BY <3>1
  <2>3. ASSUME path = <<"", "">> PROVE JoinedPath(stack) = path
    <3>1. Len(path) = 2 /\ path[1] = "" /\ path[2] = ""
      BY <2>3
    <3>2. \A i \in 1 .. Len(path) : path[i] \notin Names
      <4>1. "" \notin Names
        BY NormalizePathAssumption
      <4>2. \A i \in 1 .. 2 : i = 1 \/ i = 2
        OBVIOUS
      <4> QED
        BY <3>1, <4>1, <4>2, Zenon
    <3> QED
      BY <2>1, <2>3, <3>2, NoNamesNoStack DEF JoinedPath
  <2>4. ASSUME Len(path) > 1, \A i \in 2 .. Len(path) : path[i] \in Names
        PROVE  JoinedPath(stack) = path
    BY <2>1, <2>4, NamesOnlyStack DEF JoinedPath
  <2>5. ASSUME JoinedPath(stack) = path, stack # << >>
        PROVE  Len(path) > 1 /\ \A i \in 2 .. Len(path) : path[i] \in Names
    <3>1. path = <<"">> \o stack
      BY <2>5 DEF JoinedPath
    <3>2. Len(path) = 1 + Len(stack) /\ \A i \in 2 .. 1 + Len(stack) : path[i] = stack[i - 1]
      BY <2>2, <3>1, Rooted
    <3>3. Len(stack) >= 1
      BY <2>2, <2>5
    <3>4. ASSUME NEW i \in 2 .. Len(path) PROVE path[i] \in Names
      <4>1. i \in 2 .. 1 + Len(stack) /\ i - 1 \in 1 .. Len(stack)
        BY <2>2, <3>2
      <4>2. stack[i - 1] \in Names
        BY <2>2, <4>1
      <4> QED
        BY <3>2, <4>1, <4>2, Zenon
    <3>5. Len(path) > 1
      BY <2>2, <3>2, <3>3
    <3> QED
      BY <3>4, <3>5
  <2>6. ASSUME JoinedPath(stack) = path, stack = << >> PROVE path = <<"", "">>
    BY <2>6 DEF JoinedPath
  <2> QED
    BY <2>1, <2>3, <2>4, <2>5, <2>6 DEF UnchangedIffNormal
<1> QED
  BY <1>1, <1>2, <1>3, PathStart, PathStep, PTL DEF PathSpec, PathIsNormalized

-----------------------------------------------------------------------------
(* The limiter a process is started with                                    *)

Commands == {"server", "background-worker", "migrate"}

\* What the limiter has given out is paid for by the burst and by the time up to
\* last_refill.
Paid(b, n) ==
    /\ b \in [tokens : Int, last_refill : Int]
    /\ b.tokens \in -1 .. NotBelowZero(Burst) \cup {Burst - 1}
    /\ b.last_refill \in 0 .. clock
    /\ Rate = 0 => n <= NotBelowZero(Burst)
    /\ Rate > 0 => (n + NotBelowZero(b.tokens) - NotBelowZero(Burst)) * Rate <= b.last_refill

LimitInv ==
    /\ env \in Environments
    /\ clock \in 0 .. MaxTime
    /\ admitted \in Nat
    /\ bucket = NotSet => admitted = 0
    /\ bucket # NotSet => Paid(bucket, admitted)

\* A rate is a number of seconds, a burst any number.
LEMMA LimitTypes ==
    ASSUME env \in Environments
    PROVE  Rate \in Nat /\ Burst \in Int /\ NotBelowZero(Burst) \in Nat
<1>1. Rate \in Nat /\ Burst \in Int
  BY StartupAssumption DEF Rate, Burst
<1> QED
  BY <1>1 DEF NotBelowZero

\* Whole intervals fit into the time that has passed.
LEMMA Intervals ==
    ASSUME NEW r \in Nat, r > 0, NEW a \in Nat
    PROVE  a \div r \in Nat /\ (a \div r) * r <= a /\ a < (a \div r) * r + r
OBVIOUS

\* A quotient is the largest number of intervals that fit.
LEMMA QuotientBound ==
    ASSUME NEW r \in Nat, r > 0, NEW a \in Nat, NEW k \in Int, k * r <= a
    PROVE  k <= a \div r
<1>1. a \div r \in Nat /\ a < (a \div r) * r + r
  BY Intervals
<1> DEFINE q == a \div r
<1> HIDE DEF q
<1>2. q \in Nat /\ a < q * r + r
  BY <1>1 DEF q
<1>3. ASSUME k >= q + 1 PROVE FALSE
  <2>1. k * r >= (q + 1) * r
    BY <1>2, <1>3
  <2>2. (q + 1) * r = q * r + r
    BY <1>2
  <2> QED
    BY <1>2, <2>1, <2>2
<1> QED
  BY <1>2, <1>3 DEF q

\* The row of a new bucket.
LEMMA NewBucketPaid ==
    ASSUME LimitInv, bucket = NotSet
    PROVE  /\ Paid(NewBucket, IF NewBucket.tokens >= 0 THEN admitted + 1 ELSE admitted)
           /\ NewBucket # NotSet
<1> DEFINE b == NewBucket
           B == Burst
<1>1. B \in Int /\ Rate \in Nat /\ NotBelowZero(B) \in Nat
  BY LimitTypes DEF LimitInv
<1>2. clock \in Nat /\ admitted = 0
  BY StartupAssumption DEF LimitInv
<1>3. b \in [tokens : Int, last_refill : Int] /\ b.tokens = B - 1 /\ b.last_refill = clock
  BY <1>1, <1>2 DEF NewBucket
<1>4. b # NotSet
  BY <1>3, StartupAssumption
<1> HIDE DEF b, B
<1>5. ASSUME B >= 1 PROVE NotBelowZero(b.tokens) = B - 1 /\ NotBelowZero(B) = B
  BY <1>1, <1>3, <1>5 DEF NotBelowZero
<1>6. ASSUME B < 1 PROVE NotBelowZero(b.tokens) = 0 /\ NotBelowZero(B) = 0
  BY <1>1, <1>3, <1>6 DEF NotBelowZero
<1> DEFINE n == IF b.tokens >= 0 THEN admitted + 1 ELSE admitted
<1>7. n + NotBelowZero(b.tokens) - NotBelowZero(B) = 0 /\ n <= NotBelowZero(B) /\ n \in Nat
  BY <1>1, <1>2, <1>3, <1>5, <1>6
<1> HIDE DEF n
<1>8. (n + NotBelowZero(b.tokens) - NotBelowZero(B)) * Rate <= b.last_refill
  BY <1>1, <1>2, <1>3, <1>7
<1>9. Paid(b, n)
  BY <1>1, <1>2, <1>3, <1>7, <1>8 DEF Paid, B
<1> QED
  BY <1>4, <1>9 DEF b, n

\* The row a statement leaves gives out at most one token, and pays for what it refills
\* with the time last_refill advances by.
LEMMA TakenPaid ==
    ASSUME LimitInv, bucket # NotSet
    PROVE  /\ Paid(Taken(bucket), IF Taken(bucket).tokens >= 0 THEN admitted + 1 ELSE admitted)
           /\ Taken(bucket) # NotSet
<1> DEFINE Row == [tokens : Int, last_refill : Int]
           b == Taken(bucket)
           B == Burst
           F == NotBelowZero(B)
           t == bucket.tokens
           last == bucket.last_refill
           n == IF b.tokens >= 0 THEN admitted + 1 ELSE admitted
<1>1. B \in Int /\ Rate \in Nat /\ F \in Nat
  BY LimitTypes DEF LimitInv
<1>2. clock \in Nat /\ admitted \in Nat /\ Paid(bucket, admitted)
  BY StartupAssumption DEF LimitInv
<1>3. bucket \in Row /\ t \in Int /\ last \in 0 .. clock
  BY <1>2 DEF Paid
<1>4. CASE Rate = 0
  <2>1. b = [bucket EXCEPT !.tokens = -1]
    BY <1>4 DEF Taken
  <2>2. b \in Row /\ b.tokens = -1 /\ b.last_refill = last
    BY <1>3, <2>1
  <2>3. n = admitted /\ admitted <= F
    BY <1>2, <1>4, <2>2 DEF Paid
  <2>4. b # NotSet
    BY <2>2, StartupAssumption
  <2>5. -1 \in -1 .. F
    BY <1>1
  <2> HIDE DEF b, n, last
  <2>6. Paid(b, n)
    BY <1>3, <1>4, <2>2, <2>3, <2>5 DEF Paid
  <2> QED
    BY <2>4, <2>6 DEF b, n
<1>5. CASE Rate # 0
  <2> DEFINE gained == (clock - last) \div Rate
             have   == NotBelowZero(t) + gained
             nt == IF have >= 1 THEN AtMost(have, B) - 1 ELSE -1
             nl == last + gained * Rate
  <2>1. Rate > 0 /\ clock - last \in Nat
    BY <1>1, <1>2, <1>3, <1>5
  <2>2. gained \in Nat /\ gained * Rate <= clock - last
    BY <1>1, <2>1, Intervals
  <2>3. b = [tokens |-> nt, last_refill |-> nl]
    BY <1>5 DEF Taken
  <2>4. NotBelowZero(t) \in Nat
    BY <1>3 DEF NotBelowZero
  <2>5. (admitted + NotBelowZero(t) - F) * Rate <= last
    BY <1>2, <2>1 DEF Paid
  <2> HIDE DEF gained, t, last
  <2>6. nl \in Int /\ nl \in 0 .. clock
    BY <1>1, <1>2, <1>3, <2>2
  <2> HIDE DEF nl
  <2>7. have \in Nat
    BY <2>2, <2>4
  <2> HIDE DEF have
  <2>8. nt \in Int
    BY <1>1, <2>7 DEF AtMost
  <2> HIDE DEF nt
  <2>9. b \in Row /\ b.tokens = nt /\ b.last_refill = nl
    BY <2>3, <2>6, <2>8
  <2>10. b # NotSet
    BY <2>9, StartupAssumption
  <2>11. nt \in -1 .. F \cup {B - 1}
    BY <1>1, <2>7 DEF nt, AtMost, NotBelowZero
  <2>12. n \in Nat /\ n + NotBelowZero(nt) <= admitted + have
    BY <1>1, <1>2, <2>7, <2>9 DEF nt, AtMost, NotBelowZero
  <2> HIDE DEF b, n
  <2>13. NotBelowZero(nt) \in Nat
    BY <2>8 DEF NotBelowZero
  <2>14. (n + NotBelowZero(nt) - F) * Rate <= nl
    <3> DEFINE x == n + NotBelowZero(nt) - F
               y == admitted + NotBelowZero(t) - F
               m == NotBelowZero(t)
    <3>1. x \in Int /\ y \in Int /\ x <= y + gained
      BY <1>1, <1>2, <2>2, <2>4, <2>12, <2>13 DEF have
    <3>2. y * Rate <= last
      BY <2>5
    <3> HIDE DEF x, y
    <3>3. x * Rate <= (y + gained) * Rate
      BY <1>1, <2>1, <2>2, <3>1
    <3>4. (y + gained) * Rate = y * Rate + gained * Rate
      BY <1>1, <2>2, <3>1
    <3>5. x * Rate \in Int /\ y * Rate \in Int /\ gained * Rate \in Int
      BY <1>1, <2>2, <3>1
    <3>6. x * Rate <= nl
      BY <1>3, <3>2, <3>3, <3>4, <3>5 DEF nl
    <3> QED
      BY <3>6 DEF x
  <2>15. Paid(b, n)
    BY <1>5, <2>6, <2>9, <2>11, <2>14 DEF Paid
  <2> QED
    BY <2>10, <2>15 DEF b, n
<1> QED
  BY <1>4, <1>5

\* Only Take and Tick concern the limiter.
LEMMA LimitStep == LimitInv /\ [StartNext]_startVars => LimitInv'
<1> SUFFICES ASSUME LimitInv, [StartNext]_startVars PROVE LimitInv'
  OBVIOUS
<1>1. CASE Take
  <2> DEFINE b == bucket'
             n == admitted'
  <2>1. /\ b = IF bucket = NotSet THEN NewBucket ELSE Taken(bucket)
        /\ n = IF b.tokens >= 0 THEN admitted + 1 ELSE admitted
        /\ UNCHANGED <<env, clock>>
    BY <1>1 DEF Take
  <2>2. n \in Nat
    BY <2>1 DEF LimitInv
  <2>3. Paid(b, n) /\ b # NotSet
    BY <2>1, NewBucketPaid, TakenPaid
  <2>4. Paid(bucket, admitted)'
    BY <2>1, <2>3 DEF Paid, Rate, Burst, NotBelowZero
  <2> QED
    BY <2>1, <2>2, <2>3, <2>4 DEF LimitInv
<1>2. CASE Tick
  <2>1. clock' = clock + 1 /\ clock < MaxTime /\ UNCHANGED <<env, bucket, admitted>>
    BY <1>2 DEF Tick
  <2>2. clock \in Nat /\ clock' \in 0 .. MaxTime
    BY <2>1, StartupAssumption DEF LimitInv
  <2>3. ASSUME bucket # NotSet PROVE Paid(bucket, admitted)'
    <3>1. Paid(bucket, admitted)
      BY <2>3 DEF LimitInv
    <3>2. bucket.last_refill \in 0 .. clock'
      BY <2>1, <2>2, <3>1 DEF Paid
    <3> QED
      BY <2>1, <3>1, <3>2 DEF Paid, Rate, Burst, NotBelowZero
  <2> QED
    BY <2>1, <2>2, <2>3 DEF LimitInv
<1>3. CASE UNCHANGED <<env, clock, bucket, admitted>>
  BY <1>3 DEF LimitInv, Paid, Rate, Burst, NotBelowZero
<1> QED
  BY <1>1, <1>2, <1>3 DEF StartNext, Pass, Fail, startVars

-----------------------------------------------------------------------------
(* The stages of the start.  The environment does not change, so what the    *)
(* stages passed have accepted stays accepted.                              *)

StagesInv ==
    /\ env \in Environments /\ command \in Commands
    /\ done \in 0 .. Len(Stages[command])
    /\ status \in {"starting", "running", "failed", "panicked"}
    /\ status = "starting" => done < Len(Stages[command])
    /\ status = "running" => done = Len(Stages[command])
    /\ status \in {"failed", "panicked"} => done < Len(Stages[command]) /\ Outcomes(Stage) \ {"ok"} # {}
    /\ \A i \in 1 .. done : "ok" \in Outcomes(Stages[command][i])
    /\ \A x \in touched : \E i \in 1 .. done : x \in Opens(Stages[command][i])

ConfigNames ==
    {"base", "allowed_origins", "blocked_ips", "blocked_routes", "blocked_traffic", "session_key", "oauth",
     "trusted_proxies", "rate_limiter", "metrics_token", "sentry_dsn", "log_format"}
StageNames == ConfigNames \cup {"database_config", "connect", "app", "handler", "bind"}

\* A list of stages goes on after the first twelve.
GoesOn(t, c, s) ==
    /\ Len(t) = 12 + Len(s) /\ Len(t) \in Nat /\ Len(t) > 12
    /\ \A i \in 1 .. 12 : t[i] = c[i]
    /\ \A j \in 1 .. Len(s) : t[12 + j] = s[j]

\* So it is when a list is joined to one of twelve.
LEMMA LongerList ==
    ASSUME NEW S, NEW c \in Seq(S), NEW s \in Seq(S), Len(c) = 12, Len(s) > 0
    PROVE  GoesOn(c \o s, c, s)
<1> DEFINE t == c \o s
           k == Len(s)
<1>1. k \in Nat /\ k > 0
  BY LenProperties
<1>2. /\ Len(t) = Len(c) + Len(s)
      /\ \A i \in 1 .. Len(c) + Len(s) : t[i] = IF i <= Len(c) THEN c[i] ELSE s[i - Len(c)]
  BY ConcatProperties
<1>3. Len(t) = 12 + k /\ \A i \in 1 .. 12 + k : t[i] = IF i <= 12 THEN c[i] ELSE s[i - 12]
  BY <1>2
<1> HIDE DEF t, k
<1>4. Len(t) \in Nat /\ Len(t) > 12 /\ \A i \in 1 .. 12 : t[i] = c[i]
  BY <1>1, <1>3
<1>5. ASSUME NEW j \in 1 .. k PROVE t[12 + j] = s[j]
  <2>1. 12 + j \in 1 .. 12 + k /\ ~(12 + j <= 12) /\ (12 + j) - 12 = j
    BY <1>1
  <2> QED
    BY <1>3, <2>1
<1> QED
  BY <1>3, <1>4, <1>5 DEF t, k, GoesOn

\* Both long-running commands read the whole configuration first, then open the database
\* and the storage; a server builds its handler after that.
LEMMA ConfigFirst ==
    /\ Len(ConfigStages) = 12
    /\ \A c \in {"server", "background-worker"} :
         /\ Len(Stages[c]) \in Nat /\ Len(Stages[c]) > 12
         /\ \A i \in 1 .. 12 : Stages[c][i] = ConfigStages[i]
         /\ Stages[c][13] = "database_config"
    /\ Len(Stages["server"]) = 17 /\ Len(Stages["background-worker"]) = 15
    /\ Stages["server"][15] = "app" /\ Stages["server"][16] = "handler" /\ Stages["server"][17] = "bind"
    /\ Stages["background-worker"][15] = "app"
    /\ Len(Stages["migrate"]) = 2
<1> DEFINE serving == <<"database_config", "connect", "app", "handler", "bind">>
           working == <<"database_config", "connect", "app">>
<1>1. Len(ConfigStages) = 12
  BY DEF ConfigStages
<1>2. /\ Len(serving) = 5 /\ serving[1] = "database_config"
      /\ serving[3] = "app" /\ serving[4] = "handler" /\ serving[5] = "bind"
  OBVIOUS
<1>3. Len(working) = 3 /\ working[1] = "database_config" /\ working[3] = "app"
  OBVIOUS
<1>4. Stages["migrate"] = <<"database_config", "connect">>
  BY DEF Stages
<1>5. Stages["server"] = ConfigStages \o serving
  BY DEF Stages
<1>6. Stages["background-worker"] = ConfigStages \o working
  BY DEF Stages
<1>7. ConfigStages \in Seq(StageNames) /\ serving \in Seq(StageNames) /\ working \in Seq(StageNames)
  <2>1. ConfigStages \in Seq(StageNames)
    BY DEF ConfigStages, StageNames, ConfigNames
  <2>2. serving \in Seq(StageNames)
    BY DEF StageNames
  <2>3. working \in Seq(StageNames)
    BY DEF StageNames
  <2> QED
    BY <2>1, <2>2, <2>3
<1> HIDE DEF serving, working
<1>8. GoesOn(ConfigStages \o serving, ConfigStages, serving)
  <2>1. Len(serving) \in Nat /\ Len(serving) > 0
    BY <1>2
  <2> QED
    BY <1>1, <1>7, <2>1, LongerList
<1>9. GoesOn(ConfigStages \o working, ConfigStages, working)
  <2>1. Len(working) \in Nat /\ Len(working) > 0
    BY <1>3
  <2> QED
    BY <1>1, <1>7, <2>1, LongerList
<1>10. Len(Stages["migrate"]) = 2
  BY <1>4
<1>11. /\ Len(Stages["server"]) \in Nat /\ Len(Stages["server"]) > 12
       /\ \A i \in 1 .. 12 : Stages["server"][i] = ConfigStages[i]
  BY <1>5, <1>8, Zenon DEF GoesOn
<1>12. /\ Len(Stages["background-worker"]) \in Nat /\ Len(Stages["background-worker"]) > 12
       /\ \A i \in 1 .. 12 : Stages["background-worker"][i] = ConfigStages[i]
  BY <1>6, <1>9, Zenon DEF GoesOn
<1>13. /\ Len(Stages["server"]) = 17 /\ Stages["server"][13] = serving[1]
       /\ Stages["server"][15] = serving[3] /\ Stages["server"][16] = serving[4]
       /\ Stages["server"][17] = serving[5]
  <2>1. Len(Stages["server"]) = 12 + 5 /\ \A j \in 1 .. 5 : Stages["server"][12 + j] = serving[j]
    BY <1>2, <1>5, <1>8, Zenon DEF GoesOn
  <2> QED
    BY <2>1
<1>14. /\ Len(Stages["background-worker"]) = 15 /\ Stages["background-worker"][13] = working[1]
       /\ Stages["background-worker"][15] = working[3]
  <2>1. /\ Len(Stages["background-worker"]) = 12 + 3
        /\ \A j \in 1 .. 3 : Stages["background-worker"][12 + j] = working[j]
    BY <1>3, <1>6, <1>9, Zenon DEF GoesOn
  <2> QED
    BY <2>1
<1> QED
  BY <1>1, <1>2, <1>3, <1>10, <1>11, <1>12, <1>13, <1>14, Zenon

\* Reading the configuration touches nothing outside the process.
LEMMA ReadingIsHarmless == \A i \in 1 .. 12 : Opens(ConfigStages[i]) = {}
<1>1. ASSUME NEW s \in ConfigNames PROVE Opens(s) = {}
  BY DEF Opens, ConfigNames
<1>2. ASSUME NEW i \in 1 .. 12 PROVE ConfigStages[i] \in ConfigNames
  BY DEF ConfigStages, ConfigNames
<1> QED
  BY <1>1, <1>2, Zenon

\* After a stage that opens something come only the storage, the handler and the port.
LEMMA AfterOpening ==
    ASSUME NEW c \in {"server", "background-worker"},
           NEW i \in Nat, NEW k \in Nat, 1 <= i, i < k, k <= Len(Stages[c]),
           Opens(Stages[c][i]) # {}
    PROVE  Stages[c][k] \in {"app", "handler", "bind"}
<1>1. ~(i \in 1 .. 12)
  BY ConfigFirst, ReadingIsHarmless, Zenon
<1>2. i # 13
  <2>1. Opens("database_config") = {}
    BY DEF Opens
  <2> QED
    BY <2>1, ConfigFirst, Zenon
<1>3. k >= 15
  BY <1>1, <1>2
<1>4. CASE c = "server"
  <2>1. Len(Stages[c]) = 17
    BY <1>4, ConfigFirst, Zenon
  <2>2. k = 15 \/ k = 16 \/ k = 17
    BY <1>3, <2>1
  <2>3. Stages[c][k] = "app" \/ Stages[c][k] = "handler" \/ Stages[c][k] = "bind"
    BY <1>4, <2>2, ConfigFirst, Zenon
  <2> QED
    BY <2>3
<1>5. CASE c = "background-worker"
  <2>1. Len(Stages[c]) = 15
    BY <1>5, ConfigFirst, Zenon
  <2>2. k = 15
    BY <1>3, <2>1
  <2>3. Stages[c][k] = "app"
    BY <1>5, <2>2, ConfigFirst, Zenon
  <2> QED
    BY <2>3
<1> QED
  BY <1>4, <1>5

\* A number of stages.
LEMMA StageCount == \A c \in Commands : Len(Stages[c]) \in Nat /\ Len(Stages[c]) > 0
<1>1. Commands = {"server", "background-worker", "migrate"}
  BY DEF Commands
<1>2. 2 \in Nat /\ 2 > 0 /\ \A n \in Nat : n > 12 => n > 0
  OBVIOUS
<1> QED
  BY <1>1, <1>2, ConfigFirst, Zenon

\* No stage has passed yet.
LEMMA StagesStart == StartInit => StagesInv
<1> SUFFICES ASSUME StartInit PROVE StagesInv
  OBVIOUS
<1>1. /\ env \in Environments /\ command \in Commands /\ done = 0 /\ status = "starting"
      /\ touched = {}
  BY DEF StartInit, Commands
<1>2. Len(Stages[command]) \in Nat /\ Len(Stages[command]) > 0
  BY <1>1, StageCount, Zenon
<1>3. done \in 0 .. Len(Stages[command]) /\ done < Len(Stages[command]) /\ 1 .. done = {}
  BY <1>1, <1>2
<1> QED
  BY <1>1, <1>3, Zenon DEF StagesInv

\* How a stage ends depends on the environment alone.
LEMMA OutcomesKept ==
    ASSUME env' = env
    PROVE  \A s : Outcomes(s)' = Outcomes(s) /\ Opens(s)' = Opens(s)
<1>1. \A v : Get(v)' = Get(v)
  BY DEF Get
<1>2. AppEnv' = AppEnv
  BY <1>1 DEF AppEnv
<1> QED
  BY <1>1, <1>2 DEF Outcomes, Opens, AllowedOrigins, ParseBlockedIps, ParseBlockedTraffic, SessionKey,
       OAuthProviders, ParseTrustedProxies, ParseRateLimiter, RequireNonEmpty, LogFormat, ConnectUrl,
       DatabaseUrl, BuildHandler

\* A stage that passes has accepted its variable; nothing else is touched.
LEMMA StagesStep == StagesInv /\ [StartNext]_startVars => StagesInv'
<1> SUFFICES ASSUME StagesInv, [StartNext]_startVars PROVE StagesInv'
  OBVIOUS
<1> DEFINE n == Len(Stages[command])
<1>1. n \in Nat
  BY StageCount, Zenon DEF StagesInv
<1>2. CASE Pass
  <2>1. /\ status = "starting" /\ "ok" \in Outcomes(Stage) /\ done' = done + 1
        /\ status' = IF done + 1 = n THEN "running" ELSE "starting"
        /\ touched' = touched \cup Opens(Stage) /\ UNCHANGED <<env, command>>
    BY <1>2 DEF Pass
  <2>2. done \in 0 .. n /\ done < n
    BY <2>1 DEF StagesInv
  <2> HIDE DEF n
  <2>3. done' \in 0 .. n /\ done' = done + 1 /\ (done + 1 # n => done' < n)
    BY <1>1, <2>1, <2>2
  <2>4. \A i \in 1 .. done' : i \in 1 .. done \/ i = done + 1
    BY <1>1, <2>2, <2>3
  <2>5. done + 1 \in 1 .. done' /\ \A i \in 1 .. done : i \in 1 .. done'
    BY <1>1, <2>2, <2>3
  <2>6. \A s : Outcomes(s)' = Outcomes(s) /\ Opens(s)' = Opens(s)
    BY <2>1, OutcomesKept
  <2>7. \A i \in 1 .. done' : "ok" \in Outcomes(Stages[command][i])
    BY <2>1, <2>4, Zenon DEF StagesInv, Stage
  <2>8. \A x \in touched' : \E i \in 1 .. done' : x \in Opens(Stages[command][i])
    BY <2>1, <2>5, Zenon DEF StagesInv, Stage
  <2>9. n' = n /\ Stages[command]' = Stages[command]
    BY <2>1 DEF n, Stages
  <2>10. /\ status' \in {"starting", "running"}
         /\ status' = "starting" => done' < n
         /\ status' = "running" => done' = n
    BY <2>1, <2>3
  <2> QED
    BY <2>1, <2>3, <2>6, <2>7, <2>8, <2>9, <2>10 DEF StagesInv, n
<1>3. CASE Fail
  <2>1. /\ UNCHANGED <<env, command, done, touched>> /\ status' \in {"failed", "panicked"}
        /\ status = "starting" /\ Outcomes(Stage) \ {"ok"} # {}
    BY <1>3 DEF Fail
  <2>2. \A s : Outcomes(s)' = Outcomes(s) /\ Opens(s)' = Opens(s)
    BY <2>1, OutcomesKept
  <2>3. Stages[command]' = Stages[command] /\ Stage' = Stage
    BY <2>1 DEF Stages, Stage
  <2>4. done < n
    BY <2>1 DEF StagesInv
  <2>5. Outcomes(Stage)' = Outcomes(Stage)
    BY <2>1, <2>2, <2>3
  <2> QED
    BY <2>1, <2>2, <2>3, <2>4, <2>5 DEF StagesInv, n
<1>4. CASE UNCHANGED <<env, command, done, status, touched>>
  <2>1. \A s : Outcomes(s)' = Outcomes(s) /\ Opens(s)' = Opens(s)
    BY <1>4, OutcomesKept
  <2>2. Stages[command]' = Stages[command] /\ Stage' = Stage
    BY <1>4 DEF Stages, Stage
  <2>3. Outcomes(Stage)' = Outcomes(Stage)
    BY <2>1, <2>2
  <2> QED
    BY <1>4, <2>1, <2>2, <2>3 DEF StagesInv
<1> QED
  BY <1>2, <1>3, <1>4 DEF StartNext, Take, Tick, startVars

\* A process that runs has read every variable and accepted it.
LEMMA Accepted ==
    ASSUME StagesInv, Runs
    PROVE  /\ AppEnv # "typo" /\ AllowedOrigins = "ok" /\ ParseBlockedIps = "ok"
           /\ ParseBlockedTraffic = "ok" /\ SessionKey = "ok" /\ OAuthProviders = "ok"
           /\ ParseTrustedProxies = "ok" /\ ParseRateLimiter = "ok"
           /\ RequireNonEmpty("METRICS_TOKEN") = "ok" /\ RequireNonEmpty("SENTRY_DSN") = "ok"
           /\ LogFormat = "ok"
<1>1. command \in {"server", "background-worker"} /\ done = Len(Stages[command])
  BY DEF StagesInv, Runs, Commands
<1>2. Len(Stages[command]) \in Nat /\ Len(Stages[command]) > 12
  BY <1>1, ConfigFirst, Zenon
<1>3. \A i \in 1 .. 12 : i \in 1 .. done
  BY <1>1, <1>2
<1>4. \A i \in 1 .. 12 : "ok" \in Outcomes(ConfigStages[i])
  BY <1>1, <1>3, ConfigFirst, Zenon DEF StagesInv
<1>5. 1 \in 1 .. 12 /\ 2 \in 1 .. 12 /\ 3 \in 1 .. 12 /\ 5 \in 1 .. 12 /\ 6 \in 1 .. 12 /\ 7 \in 1 .. 12
      /\ 8 \in 1 .. 12 /\ 9 \in 1 .. 12 /\ 10 \in 1 .. 12 /\ 11 \in 1 .. 12 /\ 12 \in 1 .. 12
  OBVIOUS
<1>6. /\ ConfigStages[1] = "base" /\ ConfigStages[2] = "allowed_origins"
      /\ ConfigStages[3] = "blocked_ips" /\ ConfigStages[5] = "blocked_traffic"
      /\ ConfigStages[6] = "session_key" /\ ConfigStages[7] = "oauth"
      /\ ConfigStages[8] = "trusted_proxies" /\ ConfigStages[9] = "rate_limiter"
      /\ ConfigStages[10] = "metrics_token" /\ ConfigStages[11] = "sentry_dsn"
      /\ ConfigStages[12] = "log_format"
  BY DEF ConfigStages
<1>7. /\ "ok" \in Outcomes("base") /\ "ok" \in Outcomes("allowed_origins")
      /\ "ok" \in Outcomes("blocked_ips") /\ "ok" \in Outcomes("blocked_traffic")
      /\ "ok" \in Outcomes("session_key") /\ "ok" \in Outcomes("oauth")
      /\ "ok" \in Outcomes("trusted_proxies") /\ "ok" \in Outcomes("rate_limiter")
      /\ "ok" \in Outcomes("metrics_token") /\ "ok" \in Outcomes("sentry_dsn")
      /\ "ok" \in Outcomes("log_format")
  BY <1>4, <1>5, <1>6, Zenon
<1>8. AppEnv # "typo"
  BY <1>7 DEF Outcomes
<1>9. AllowedOrigins = "ok" /\ ParseBlockedIps = "ok" /\ ParseBlockedTraffic = "ok"
  BY <1>7 DEF Outcomes
<1>10. SessionKey = "ok" /\ OAuthProviders = "ok" /\ ParseTrustedProxies = "ok"
  BY <1>7 DEF Outcomes
<1>11. ParseRateLimiter = "ok" /\ LogFormat = "ok"
  BY <1>7 DEF Outcomes
<1>12. RequireNonEmpty("METRICS_TOKEN") = "ok" /\ RequireNonEmpty("SENTRY_DSN") = "ok"
  BY <1>7 DEF Outcomes
<1> QED
  BY <1>8, <1>9, <1>10, <1>11, <1>12

\* What the variables may hold.
LEMMA VariableValues ==
    ASSUME env \in Environments
    PROVE  /\ Get("APP_ENV") \in {"development", "test", "production", "typo", "unset"}
           /\ Get("BLOCKED_IPS") \in {"blank", "good", "one_bad", "unset"}
           /\ Get("BLOCKED_ROUTES") \in {"blank", "good", "unset"}
           /\ Get("BLOCKED_TRAFFIC") \in {"blank", "good", "no_equals", "bad_header", "no_such_variable",
                                         "bad_regex", "blank_values", "unset"}
           /\ Get("SESSION_KEY") \in {"short", "sample", "long", "unset"}
           /\ Get("OAUTH_CREDENTIALS") \in {"id", "secret", "both", "unset"}
           /\ Get("TRUSTED_PROXIES") \in {"blank", "networks", "addresses", "junk", "unset"}
           /\ Get("RATE_LIMITER") \in {"typo", "unset"}
           /\ Get("METRICS_TOKEN") \in {"blank", "good", "unset"}
           /\ Get("SENTRY_DSN") \in {"blank", "good", "unset"}
           /\ Get("DATABASE_URL") \in {"main", "not_a_url", "unset"}
<1>1. ASSUME NEW v \in DOMAIN Values PROVE Get(v) \in Values[v] \cup {"unset"}
  BY StartupAssumption DEF Get, Variables
<1>2. /\ {"APP_ENV", "BLOCKED_IPS", "BLOCKED_ROUTES", "BLOCKED_TRAFFIC", "SESSION_KEY",
           "OAUTH_CREDENTIALS", "TRUSTED_PROXIES", "RATE_LIMITER", "METRICS_TOKEN", "SENTRY_DSN",
           "DATABASE_URL"} \subseteq DOMAIN Values
      /\ Values["APP_ENV"] = {"development", "test", "production", "typo"}
      /\ Values["BLOCKED_IPS"] = {"blank", "good", "one_bad"}
      /\ Values["BLOCKED_ROUTES"] = {"blank", "good"}
      /\ Values["BLOCKED_TRAFFIC"] = {"blank", "good", "no_equals", "bad_header", "no_such_variable",
                                      "bad_regex", "blank_values"}
      /\ Values["SESSION_KEY"] = {"short", "sample", "long"}
      /\ Values["OAUTH_CREDENTIALS"] = {"id", "secret", "both"}
      /\ Values["TRUSTED_PROXIES"] = {"blank", "networks", "addresses", "junk"}
      /\ Values["RATE_LIMITER"] = {"typo"}
      /\ Values["METRICS_TOKEN"] = {"blank", "good"}
      /\ Values["SENTRY_DSN"] = {"blank", "good"}
      /\ Values["DATABASE_URL"] = {"main", "not_a_url"}
  BY DEF Values
<1> HIDE DEF Values
<1> QED
  BY <1>1, <1>2

\* For every environment: a process that runs has every control its environment asks for,
\* but for a traffic rule whose variable holds only blanks, which the code drops; one that
\* refuses its configuration has opened nothing, but for an origin that is no header value,
\* on which a server panics when it builds its handler.
THEOREM ControlsAreInForce == StartSpec => []InForceOrRefused
<1>1. ASSUME StagesInv PROVE NoControlIsLost
  <2> SUFFICES ASSUME Runs, NEW v \in Controls, Asked(v)
               PROVE  InForce(v) \/ (v = "BLOCKED_TRAFFIC" /\ Get(v) = "blank_values")
    BY DEF NoControlIsLost
  <2>1. env \in Environments
    BY <1>1 DEF StagesInv
  <2>2. CASE v \in {"BLOCKED_IPS", "BLOCKED_ROUTES"}
    BY <1>1, <2>1, <2>2, Accepted, VariableValues DEF Asked, InForce, ParseBlockedIps
  <2>3. CASE v = "BLOCKED_TRAFFIC"
    BY <1>1, <2>1, <2>3, Accepted, VariableValues DEF Asked, InForce, ParseBlockedTraffic, TrafficRules
  <2>4. CASE v \in {"TRUSTED_PROXIES", "RATE_LIMITER"}
    BY <1>1, <2>1, <2>4, Accepted, VariableValues DEF Asked, InForce, ParseTrustedProxies, ParseRateLimiter
  <2>5. CASE v \in {"OAUTH_CREDENTIALS", "METRICS_TOKEN", "SENTRY_DSN"}
    BY <1>1, <2>1, <2>5, Accepted, VariableValues DEF Asked, InForce, OAuthProviders, RequireNonEmpty
  <2> QED
    BY <2>2, <2>3, <2>4, <2>5 DEF Controls
<1>2. ASSUME StagesInv PROVE RefusedBeforeEffects
  <2> SUFFICES ASSUME status \in {"failed", "panicked"}, command # "migrate", touched # {}
               PROVE  Stage \in {"app", "bind"}
                      \/ (Stage = "handler" /\ Get("WEB_ALLOWED_ORIGINS") = "not_a_header")
    BY DEF RefusedBeforeEffects
  <2>1. /\ command \in {"server", "background-worker"} /\ done \in 0 .. Len(Stages[command])
        /\ done < Len(Stages[command]) /\ Outcomes(Stage) \ {"ok"} # {}
    BY <1>2 DEF StagesInv, Commands
  <2>2. PICK i \in 1 .. done : Opens(Stages[command][i]) # {}
    BY <1>2 DEF StagesInv
  <2>3. Len(Stages[command]) \in Nat
    BY <2>1, ConfigFirst, Zenon
  <2>4. i \in Nat /\ done + 1 \in Nat /\ 1 <= i /\ i < done + 1 /\ done + 1 <= Len(Stages[command])
    BY <2>1, <2>3
  <2>5. Stage \in {"app", "handler", "bind"}
    BY <2>1, <2>2, <2>4, AfterOpening DEF Stage
  <2>6. Stage = "handler" => Outcomes(Stage) = {BuildHandler}
    BY DEF Outcomes
  <2> QED
    BY <2>1, <2>5, <2>6 DEF BuildHandler
<1> QED
  BY <1>1, <1>2, StagesStart, StagesStep, PTL DEF StartSpec, InForceOrRefused

\* Without asking for another environment a process has the settings of production, and
\* the test database is opened in tests only: for every environment.
THEOREM ProductionUnlessAsked == StartSpec => []ProductionByDefault
<1>1. ASSUME StagesInv PROVE ProductionUnlessTold
  <2> SUFFICES ASSUME Runs, Get("APP_ENV") \notin {"development", "test"} PROVE ProductionUnlessTold
    BY DEF ProductionUnlessTold
  <2>1. env \in Environments
    BY <1>1 DEF StagesInv
  <2>2. AppEnv = "production"
    BY <1>1, <2>1, Accepted, VariableValues DEF AppEnv
  <2>3. Get("SESSION_KEY") = "long"
    BY <1>1, <2>1, <2>2, Accepted, VariableValues DEF SessionKey
  <2>4. Get("SESSION_COOKIE_SECURE") # "false" => SecureCookies
    BY <2>2 DEF SecureCookies
  <2>5. Get("SECURITY_HSTS_ENABLED") # "false" => HstsEnabled
    BY <2>2 DEF HstsEnabled
  <2>6. ~DebugRoute
    BY <2>2 DEF DebugRoute
  <2> QED
    BY <2>3, <2>4, <2>5, <2>6 DEF ProductionUnlessTold
<1>2. ASSUME StagesInv PROVE TestDatabaseInTestsOnly
  <2>1. env \in Environments
    BY <1>2 DEF StagesInv
  <2> QED
    BY <2>1, VariableValues DEF TestDatabaseInTestsOnly, DatabaseUrl, AppEnv
<1> QED
  BY <1>1, <1>2, StagesStart, StagesStep, PTL DEF StartSpec, ProductionByDefault

\* The limiter works at every rate and burst the configuration accepts, zero and below
\* included, and for any time.
THEOREM LimitsAlwaysWork == StartSpec => []EveryLimitWorks
<1>1. StartInit => LimitInv
  BY StartupAssumption DEF StartInit, LimitInv
<1>2. ASSUME StagesInv PROVE touched \subseteq {"database", "storage", "port"}
  <2>1. \A s : Opens(s) \subseteq {"database", "storage", "port"}
    BY DEF Opens
  <2> QED
    BY <1>2, <2>1, Zenon DEF StagesInv
<1>3. ASSUME StagesInv, LimitInv PROVE StartTypeOK
  BY <1>2, <1>3 DEF StagesInv, LimitInv, Paid, StartTypeOK
<1>4. ASSUME LimitInv PROVE EdgesLimit
  <2> DEFINE F == NotBelowZero(Burst)
  <2>1. Rate \in Nat /\ F \in Nat
    BY <1>4, LimitTypes DEF LimitInv
  <2>2. clock \in Nat /\ admitted \in Nat
    BY <1>4, StartupAssumption DEF LimitInv
  <2>3. CASE bucket = NotSet
    <3>1. admitted = 0
      BY <1>4, <2>3 DEF LimitInv
    <3>2. Rate # 0 => clock \div Rate \in Nat
      BY <2>1, <2>2, Intervals
    <3> HIDE DEF F
    <3> QED
      BY <2>1, <2>2, <3>1, <3>2 DEF EdgesLimit, F
  <2>4. CASE bucket # NotSet /\ Rate = 0
    BY <1>4, <2>1, <2>2, <2>4 DEF LimitInv, Paid, EdgesLimit
  <2>5. CASE bucket # NotSet /\ Rate # 0
    <3> DEFINE k == admitted - F
               m == NotBelowZero(bucket.tokens)
    <3>1. /\ bucket.tokens \in Int /\ bucket.last_refill \in 0 .. clock
          /\ (admitted + m - F) * Rate <= bucket.last_refill
      BY <1>4, <2>1, <2>5 DEF LimitInv, Paid
    <3>2. m \in Nat
      BY <3>1 DEF NotBelowZero
    <3> HIDE DEF F, m
    <3>3. k \in Int /\ k <= admitted + m - F /\ admitted + m - F \in Int
      BY <2>1, <2>2, <3>2
    <3>4. k * Rate <= (admitted + m - F) * Rate
      BY <2>1, <3>3
    <3>5. k * Rate <= clock
      BY <2>1, <2>2, <3>1, <3>3, <3>4
    <3>6. k <= clock \div Rate /\ clock \div Rate \in Nat
      BY <2>1, <2>2, <2>5, <3>3, <3>5, QuotientBound, Intervals
    <3> QED
      BY <2>1, <2>2, <2>5, <3>6 DEF EdgesLimit, F
  <2> QED
    BY <2>3, <2>4, <2>5
<1> QED
  BY <1>1, <1>3, <1>4, LimitStep, StagesStart, StagesStep, PTL DEF StartSpec, EveryLimitWorks

-----------------------------------------------------------------------------
(* Looking up directives                                                    *)

\* The directive of a name, when one has it.
LEMMA SourcesAt ==
    ASSUME NEW csp, NEW name, NEW i \in DOMAIN csp, i \in Int, csp[i].name = name,
           \A j \in DOMAIN csp : csp[j].name = name => j = i
    PROVE  Sources(csp, name) = csp[i]
<1> DEFINE at == {j \in DOMAIN csp : csp[j].name = name}
<1>1. at = {i}
  OBVIOUS
<1>2. (CHOOSE k \in at : \A j \in at : k <= j) = i
  <2>1. i <= i
    OBVIOUS
  <2>2. \E k \in at : \A j \in at : k <= j
    BY <1>1, <2>1
  <2> QED
    BY <1>1, <2>2
<1> QED
  BY <1>1, <1>2 DEF Sources

\* No directive has the name.
LEMMA SourcesNone ==
    ASSUME NEW csp, NEW name, \A j \in DOMAIN csp : csp[j].name # name
    PROVE  Sources(csp, name) = Null
BY DEF Sources

\* What a variable may hold.
LEMMA SettingsHold ==
    ASSUME NEW e \in Settings
    PROVE  /\ DOMAIN e = SettingNames
           /\ e.CSP_MODE \in SettingValues.CSP_MODE
           /\ e.FRAME_OPTIONS \in SettingValues.FRAME_OPTIONS
           /\ e.FRAME_ANCESTORS \in SettingValues.FRAME_ANCESTORS
           /\ e.HSTS_MAX_AGE \in SettingValues.HSTS_MAX_AGE
BY PagesAssumption DEF SettingNames, SettingValues

-----------------------------------------------------------------------------
(* The policy, setting by setting                                           *)

Fallback == <<Plain("default-src", {"self"})>>

\* A part of the policy that is no header value replaces all of it.
Unsendable(e) == CspMode(e) = "custom_bad" \/ (CspMode(e) # "custom" /\ FrameAncestors(e) = "bad")

\* A list of two with one element, or none, behind it.
LEMMA PairJoined ==
    ASSUME NEW a, NEW b, NEW c
    PROVE  <<a, b>> \o <<c>> = <<a, b, c>> /\ <<a, b>> \o <<>> = <<a, b>>
<1>1. <<a, b>> \o <<c>> = <<a, b, c>>
  <2> DEFINE S == {a, b, c}
             p == <<a, b>>
             q == <<c>>
             r == <<a, b, c>>
             t == p \o q
  <2>1. p \in Seq(S) /\ Len(p) = 2 /\ p[1] = a /\ p[2] = b
    OBVIOUS
  <2>2. q \in Seq(S) /\ Len(q) = 1 /\ q[1] = c
    OBVIOUS
  <2>3. r \in Seq(S) /\ Len(r) = 3 /\ r[1] = a /\ r[2] = b /\ r[3] = c
    OBVIOUS
  <2> HIDE DEF S, p, q, r
  <2>4. /\ t \in Seq(S) /\ Len(t) = Len(p) + Len(q)
        /\ \A i \in 1 .. Len(p) + Len(q) : t[i] = IF i <= Len(p) THEN p[i] ELSE q[i - Len(p)]
    BY <2>1, <2>2, ConcatProperties
  <2> HIDE DEF t
  <2>5. Len(t) = 3 /\ t[1] = a /\ t[2] = b /\ t[3] = c
    BY <2>1, <2>2, <2>4
  <2>6. \A i \in 1 .. 3 : t[i] = r[i]
    BY <2>3, <2>5
  <2>7. t = r
    BY <2>3, <2>4, <2>5, <2>6, SeqEqual
  <2> QED
    BY <2>7 DEF t, p, q, r
<1>2. <<a, b>> \o <<>> = <<a, b>>
  <2>1. <<a, b>> \in Seq({a, b})
    OBVIOUS
  <2> QED
    BY <2>1, ConcatEmptySeq
<1> QED
  BY <1>1, <1>2

\* The three policies as lists.
LEMMA PolicyCases ==
    ASSUME NEW e \in Settings, NEW n
    PROVE  /\ CspMode(e) \in {"strict", "permissive", "custom", "custom_bad"}
           /\ FrameAncestors(e) \in {Null, "trusted", "bad"}
           /\ CspMode(e) = "strict" =>
                GenerateCsp(e, n) =
                  <<Plain("default-src", {"self"}), Directive("script-src", {"self"}, {n}),
                    Plain("frame-ancestors", IF FrameAncestors(e) = Null THEN {} ELSE {FrameAncestors(e)})>>
           /\ CspMode(e) = "permissive" /\ FrameAncestors(e) = Null =>
                GenerateCsp(e, n) =
                  <<Plain("default-src", {"self"}), Plain("script-src", {"self", "unsafe-inline", "unsafe-eval"})>>
           /\ CspMode(e) = "permissive" /\ FrameAncestors(e) # Null =>
                GenerateCsp(e, n) =
                  <<Plain("default-src", {"self"}), Plain("script-src", {"self", "unsafe-inline", "unsafe-eval"}),
                    Plain("frame-ancestors", {FrameAncestors(e)})>>
           /\ CspMode(e) \in {"custom", "custom_bad"} => GenerateCsp(e, n) = <<Plain("custom", {CspMode(e)})>>
<1>1. CspMode(e) \in {"strict", "permissive", "custom", "custom_bad"}
  BY DEF CspMode, Parsed
<1>2. FrameAncestors(e) \in {Null, "trusted", "bad"}
  <2>1. e.FRAME_ANCESTORS \in {"unset", "blank", "trusted", "bad"}
    BY SettingsHold DEF SettingValues
  <2> QED
    BY <2>1 DEF FrameAncestors
<1> DEFINE M == CspMode(e)
           A == FrameAncestors(e)
           P2 == <<Plain("default-src", {"self"}), Plain("script-src", {"self", "unsafe-inline", "unsafe-eval"})>>
<1> HIDE DEF M, A
<1>3. ASSUME M = "strict" PROVE GenerateCsp(e, n) =
                  <<Plain("default-src", {"self"}), Directive("script-src", {"self"}, {n}),
                    Plain("frame-ancestors", IF A = Null THEN {} ELSE {A})>>
  BY <1>3, Zenon DEF GenerateCsp, M, A
<1>4. ASSUME M = "permissive"
      PROVE  GenerateCsp(e, n) = P2 \o (IF A = Null THEN <<>> ELSE <<Plain("frame-ancestors", {A})>>)
  BY <1>4 DEF GenerateCsp, M, A
<1>5. ASSUME M \in {"custom", "custom_bad"} PROVE GenerateCsp(e, n) = <<Plain("custom", {M})>>
  BY <1>5 DEF GenerateCsp, M
<1>6. \A a, b, c : <<a, b>> \o <<c>> = <<a, b, c>> /\ <<a, b>> \o <<>> = <<a, b>>
  BY PairJoined
<1>7. ASSUME M = "permissive", A = Null PROVE GenerateCsp(e, n) = P2
  BY <1>4, <1>6, <1>7
<1>8. ASSUME M = "permissive", A # Null
      PROVE  GenerateCsp(e, n) =
                  <<Plain("default-src", {"self"}), Plain("script-src", {"self", "unsafe-inline", "unsafe-eval"}),
                    Plain("frame-ancestors", {A})>>
  BY <1>4, <1>6, <1>8
<1> QED
  BY <1>1, <1>2, <1>3, <1>5, <1>7, <1>8 DEF M, A

\* Looking up the directives of a policy of three,
LEMMA ThreeDirectives ==
    ASSUME NEW a, NEW b, NEW c, a.name = "default-src", b.name = "script-src", c.name = "frame-ancestors"
    PROVE  /\ Sources(<<a, b, c>>, "script-src") = b
           /\ Sources(<<a, b, c>>, "frame-ancestors") = c
<1> DEFINE p == <<a, b, c>>
<1>1. DOMAIN p = 1 .. 3 /\ p[1] = a /\ p[2] = b /\ p[3] = c
  OBVIOUS
<1> HIDE DEF p
<1>2. \A i \in DOMAIN p : i = 1 \/ i = 2 \/ i = 3
  BY <1>1
<1>3. 1 \in DOMAIN p /\ 2 \in DOMAIN p /\ 3 \in DOMAIN p /\ 2 \in Int /\ 3 \in Int
  BY <1>1
<1>4. p[1].name = "default-src" /\ p[2].name = "script-src" /\ p[3].name = "frame-ancestors"
  BY <1>1
<1>5. \A i \in DOMAIN p : p[i].name = "script-src" => i = 2
  BY <1>2, <1>4
<1>6. \A i \in DOMAIN p : p[i].name = "frame-ancestors" => i = 3
  BY <1>2, <1>4
<1>7. Sources(p, "script-src") = p[2]
  BY <1>3, <1>4, <1>5, SourcesAt, Zenon
<1>8. Sources(p, "frame-ancestors") = p[3]
  BY <1>3, <1>4, <1>6, SourcesAt, Zenon
<1> QED
  BY <1>1, <1>7, <1>8 DEF p

\* of two,
LEMMA TwoDirectives ==
    ASSUME NEW a, NEW b, a.name = "default-src", b.name = "script-src"
    PROVE  /\ Sources(<<a, b>>, "script-src") = b
           /\ Sources(<<a, b>>, "frame-ancestors") = Null
<1> DEFINE p == <<a, b>>
<1>1. DOMAIN p = 1 .. 2 /\ p[1] = a /\ p[2] = b
  OBVIOUS
<1> HIDE DEF p
<1>2. \A i \in DOMAIN p : i = 1 \/ i = 2
  BY <1>1
<1>3. 1 \in DOMAIN p /\ 2 \in DOMAIN p /\ 2 \in Int
  BY <1>1
<1>4. p[1].name = "default-src" /\ p[2].name = "script-src"
  BY <1>1
<1>5. \A i \in DOMAIN p : p[i].name = "script-src" => i = 2
  BY <1>2, <1>4
<1>6. \A i \in DOMAIN p : p[i].name # "frame-ancestors"
  BY <1>2, <1>4
<1>7. Sources(p, "script-src") = p[2]
  BY <1>3, <1>4, <1>5, SourcesAt, Zenon
<1>8. Sources(p, "frame-ancestors") = Null
  BY <1>6, SourcesNone, Zenon
<1> QED
  BY <1>1, <1>7, <1>8 DEF p

\* and of one that has neither scripts nor ancestors.
LEMMA OneDirective ==
    ASSUME NEW a, a.name = "default-src" \/ a.name = "custom"
    PROVE  /\ Sources(<<a>>, "script-src") = Null
           /\ Sources(<<a>>, "frame-ancestors") = Null
           /\ a.name = "default-src" => Sources(<<a>>, "default-src") = a
<1> DEFINE p == <<a>>
<1>1. DOMAIN p = 1 .. 1 /\ p[1] = a
  OBVIOUS
<1> HIDE DEF p
<1>2. \A i \in DOMAIN p : i = 1
  BY <1>1
<1>3. 1 \in DOMAIN p /\ 1 \in Int
  BY <1>1
<1>4. \A i \in DOMAIN p : p[i].name # "script-src" /\ p[i].name # "frame-ancestors"
  BY <1>1, <1>2
<1>5. Sources(p, "script-src") = Null /\ Sources(p, "frame-ancestors") = Null
  BY <1>4, SourcesNone, Zenon
<1>6. a.name = "default-src" => Sources(p, "default-src") = p[1]
  BY <1>1, <1>2, <1>3, SourcesAt, Zenon
<1> QED
  BY <1>1, <1>5, <1>6 DEF p

\* The policy as it is sent: the fallback replaces one that is no header value.
LEMMA PolicySent ==
    ASSUME NEW e \in Settings, NEW n
    PROVE  CspHeader(e, n) = IF Unsendable(e) THEN Fallback ELSE GenerateCsp(e, n)
<1> DEFINE csp == GenerateCsp(e, n)
           bad == {"bad", "custom_bad"}
           spoilt == \E i \in DOMAIN csp : csp[i].sources \cap bad # {}
           M == CspMode(e)
           A == FrameAncestors(e)
<1>1. CspHeader(e, n) = IF spoilt THEN Fallback ELSE csp
  BY DEF CspHeader, Fallback
<1>2. M \in {"strict", "permissive", "custom", "custom_bad"} /\ A \in {Null, "trusted", "bad"}
  BY PolicyCases
<1>3. Null # "bad" /\ Null # "trusted"
  BY PagesAssumption DEF SettingValues
<1>4. CASE M = "strict" \/ (M = "permissive" /\ A # Null)
  <2>1. PICK a, b, c : /\ csp = <<a, b, c>> /\ a.sources \cap bad = {} /\ b.sources \cap bad = {}
                       /\ c.sources = IF A = Null THEN {} ELSE {A}
    <3>1. CASE M = "strict"
      <4> DEFINE x == Plain("default-src", {"self"})
                 y == Directive("script-src", {"self"}, {n})
                 z == Plain("frame-ancestors", IF A = Null THEN {} ELSE {A})
      <4>1. csp = <<x, y, z>>
        BY <3>1, PolicyCases
      <4>2. x.sources \cap bad = {} /\ y.sources \cap bad = {}
        BY DEF Plain, Directive
      <4>3. z.sources = IF A = Null THEN {} ELSE {A}
        BY DEF Plain, Directive
      <4> HIDE DEF x, y, z, csp
      <4> QED
        BY <4>1, <4>2, <4>3, Zenon
    <3>2. CASE M = "permissive" /\ A # Null
      BY <3>2, PolicyCases DEF Plain, Directive
    <3> QED
      BY <1>4, <3>1, <3>2
  <2>2. DOMAIN csp = 1 .. 3 /\ csp[1] = a /\ csp[2] = b /\ csp[3] = c
    BY <2>1
  <2>3. spoilt <=> A = "bad"
    <3> HIDE DEF csp
    <3>1. \A i \in DOMAIN csp : i = 1 \/ i = 2 \/ i = 3
      BY <2>2
    <3>2. 3 \in DOMAIN csp
      BY <2>2
    <3>3. c.sources \cap bad # {} <=> A = "bad"
      BY <1>2, <1>3, <2>1
    <3> QED
      BY <2>1, <2>2, <3>1, <3>2, <3>3, Zenon
  <2> QED
    BY <1>1, <1>4, <2>3 DEF Unsendable
<1>5. CASE M = "permissive" /\ A = Null
  <2>1. PICK a, b : csp = <<a, b>> /\ a.sources \cap bad = {} /\ b.sources \cap bad = {}
    BY <1>5, PolicyCases DEF Plain, Directive
  <2>2. DOMAIN csp = 1 .. 2 /\ csp[1] = a /\ csp[2] = b
    BY <2>1
  <2>3. ~spoilt
    <3> HIDE DEF csp
    <3>1. \A i \in DOMAIN csp : i = 1 \/ i = 2
      BY <2>2
    <3> QED
      BY <2>1, <2>2, <3>1, Zenon
  <2> QED
    BY <1>1, <1>3, <1>5, <2>3 DEF Unsendable
<1>6. CASE M \in {"custom", "custom_bad"}
  <2>1. PICK a : csp = <<a>> /\ a.sources = {M}
    BY <1>6, PolicyCases DEF Plain, Directive
  <2>2. DOMAIN csp = 1 .. 1 /\ csp[1] = a
    BY <2>1
  <2>3. spoilt <=> M = "custom_bad"
    <3> HIDE DEF csp
    <3>1. \A i \in DOMAIN csp : i = 1
      BY <2>2
    <3>2. 1 \in DOMAIN csp
      BY <2>2
    <3>3. a.sources \cap bad # {} <=> M = "custom_bad"
      BY <1>6, <2>1
    <3> QED
      BY <2>2, <3>1, <3>2, <3>3, Zenon
  <2> QED
    BY <1>1, <1>6, <2>3 DEF Unsendable
<1> QED
  BY <1>2, <1>4, <1>5, <1>6

\* What a browser makes of the policy: which scripts run,
LEMMA ScriptsEnforced ==
    ASSUME NEW e \in Settings, NEW n \in 1 .. MaxMinted
    PROVE  /\ CspMode(e) = "strict" /\ FrameAncestors(e) # "bad" =>
                \A m : ScriptRuns(CspHeader(e, n), m) <=> m = n
           /\ ScriptRuns(CspHeader(e, n), 0) => e.CSP_MODE \in {"permissive", "custom"}
<1> DEFINE csp == CspHeader(e, n)
           M == CspMode(e)
           A == FrameAncestors(e)
<1>1. M \in {"strict", "permissive", "custom", "custom_bad"} /\ A \in {Null, "trusted", "bad"}
  BY PolicyCases
<1>2. ASSUME M = "strict", A # "bad" PROVE \A m : ScriptRuns(csp, m) <=> m = n
  <2> DEFINE x == Plain("default-src", {"self"})
             y == Directive("script-src", {"self"}, {n})
             z == Plain("frame-ancestors", IF A = Null THEN {} ELSE {A})
  <2>1. csp = <<x, y, z>>
    BY <1>2, PolicyCases, PolicySent DEF Unsendable
  <2>2. x.name = "default-src" /\ y.name = "script-src" /\ z.name = "frame-ancestors"
    BY DEF Plain, Directive
  <2>3. y.nonces = {n} /\ y.sources = {"self"}
    BY DEF Directive
  <2>4. DOMAIN csp = 1 .. 3 /\ csp[2] = y
    BY <2>1
  <2> HIDE DEF x, y, z, csp
  <2>5. Sources(csp, "script-src") = y
    BY <2>1, <2>2, ThreeDirectives, Zenon
  <2>6. 2 \in DOMAIN csp
    BY <2>4
  <2>7. y # Null
    BY <2>4, <2>6, HeadersAssumption, Zenon DEF csp
  <2>8. \A m : ScriptRuns(csp, m) <=> (m \in y.nonces \/ "unsafe-inline" \in y.sources)
    BY <2>5, <2>7, Zenon DEF ScriptRuns
  <2> QED
    BY <2>3, <2>8
<1>3. ASSUME Unsendable(e) PROVE ~ScriptRuns(csp, 0)
  <2> DEFINE x == Plain("default-src", {"self"})
  <2>1. csp = <<x>>
    BY <1>3, PolicySent DEF Fallback
  <2>2. x.name = "default-src" /\ x.nonces = {} /\ x.sources = {"self"}
    BY DEF Plain, Directive
  <2>3. DOMAIN csp = 1 .. 1 /\ csp[1] = x
    BY <2>1
  <2> HIDE DEF x, csp
  <2>4. Sources(csp, "script-src") = Null /\ Sources(csp, "default-src") = x
    BY <2>1, <2>2, OneDirective, Zenon
  <2>5. 1 \in DOMAIN csp
    BY <2>3
  <2>6. x # Null
    BY <2>3, <2>5, HeadersAssumption, Zenon DEF csp
  <2>7. ScriptRuns(csp, 0) <=> (0 \in x.nonces \/ "unsafe-inline" \in x.sources)
    BY <2>4, <2>6, Zenon DEF ScriptRuns
  <2> QED
    BY <2>2, <2>7
<1>4. n # 0
  BY PagesAssumption
<1>5. M = "permissive" => e.CSP_MODE = "permissive"
  BY DEF CspMode, Parsed
<1>6. M = "custom" => e.CSP_MODE = "custom"
  BY DEF CspMode, Parsed
<1> HIDE DEF csp, M, A
<1>7. ScriptRuns(csp, 0) => e.CSP_MODE \in {"permissive", "custom"}
  <2>1. CASE M = "strict" /\ A # "bad"
    BY <1>2, <1>4, <2>1
  <2>2. CASE M \in {"strict", "custom_bad"} /\ ~(M = "strict" /\ A # "bad")
    BY <1>3, <2>2 DEF Unsendable, M, A
  <2> QED
    BY <1>1, <1>5, <1>6, <2>1, <2>2
<1> QED
  BY <1>2, <1>7 DEF csp, M, A

\* and who may frame the page.
LEMMA FramesEnforced ==
    ASSUME NEW e \in Settings, NEW n \in 1 .. MaxMinted, NEW h,
           h.csp = CspHeader(e, n), h.frame = FrameOptionsHeader(e)
    PROVE  /\ "other" \in Framers(h) <=> FrameOptions(e) = "allow_from" /\ ~AncestorsSent(e)
           /\ "trusted" \in Framers(h) <=> \/ FrameAncestors(e) = "trusted" /\ AncestorsSent(e)
                                           \/ FrameOptions(e) = "allow_from" /\ ~AncestorsSent(e)
<1> DEFINE csp == CspHeader(e, n)
           M == CspMode(e)
           A == FrameAncestors(e)
<1>1. M \in {"strict", "permissive", "custom", "custom_bad"} /\ A \in {Null, "trusted", "bad"}
  BY PolicyCases
<1>2. Null # "bad" /\ Null # "trusted"
  BY PagesAssumption DEF SettingValues
<1>3. AncestorsSent(e) <=> A # "bad" /\ (M = "strict" \/ (M = "permissive" /\ A # Null))
  BY DEF AncestorsSent
<1>4. ASSUME A # "bad", M = "strict" \/ (M = "permissive" /\ A # Null)
      PROVE  Framers(h) = IF A = Null THEN {} ELSE {A}
  <2>1. PICK x, y, z : /\ csp = <<x, y, z>> /\ x.name = "default-src" /\ y.name = "script-src"
                       /\ z.name = "frame-ancestors" /\ z.sources = IF A = Null THEN {} ELSE {A}
    <3> DEFINE w == Plain("frame-ancestors", IF A = Null THEN {} ELSE {A})
    <3>1. PICK x, y : csp = <<x, y, w>> /\ x.name = "default-src" /\ y.name = "script-src"
      <4>1. CASE M = "strict"
        <5> DEFINE x == Plain("default-src", {"self"})
                   y == Directive("script-src", {"self"}, {n})
        <5>1. csp = <<x, y, w>>
          BY <1>4, <4>1, PolicyCases, PolicySent DEF Unsendable
        <5>2. x.name = "default-src" /\ y.name = "script-src"
          BY DEF Plain, Directive
        <5> HIDE DEF x, y, w, csp
        <5> QED
          BY <5>1, <5>2, Zenon
      <4>2. CASE M = "permissive" /\ A # Null
        <5> DEFINE x == Plain("default-src", {"self"})
                   y == Plain("script-src", {"self", "unsafe-inline", "unsafe-eval"})
        <5>1. csp = <<x, y, w>>
          BY <1>4, <4>2, PolicyCases, PolicySent DEF Unsendable
        <5>2. x.name = "default-src" /\ y.name = "script-src"
          BY DEF Plain, Directive
        <5> HIDE DEF x, y, w, csp
        <5> QED
          BY <5>1, <5>2, Zenon
      <4> QED
        BY <1>4, <4>1, <4>2
    <3>2. w.name = "frame-ancestors" /\ w.sources = IF A = Null THEN {} ELSE {A}
      BY DEF Plain, Directive
    <3> HIDE DEF w, csp
    <3> QED
      BY <3>1, <3>2, Zenon
  <2>2. DOMAIN csp = 1 .. 3 /\ csp[3] = z
    BY <2>1
  <2> HIDE DEF csp
  <2>3. Sources(csp, "frame-ancestors") = z
    BY <2>1, ThreeDirectives, Zenon
  <2>4. 3 \in DOMAIN csp
    BY <2>2
  <2>5. z # Null
    BY <2>2, <2>4, HeadersAssumption, Zenon DEF csp
  <2>6. h.csp = csp
    BY DEF csp
  <2> QED
    BY <2>1, <2>3, <2>5, <2>6, Zenon DEF Framers
<1>5. ASSUME ~(A # "bad" /\ (M = "strict" \/ (M = "permissive" /\ A # Null)))
      PROVE  Sources(csp, "frame-ancestors") = Null
  <2>1. CASE Unsendable(e)
    <3> DEFINE x == Plain("default-src", {"self"})
    <3>1. csp = <<x>>
      BY <2>1, PolicySent DEF Fallback
    <3>2. x.name = "default-src"
      BY DEF Plain, Directive
    <3> HIDE DEF x, csp
    <3> QED
      BY <3>1, <3>2, OneDirective, Zenon
  <2>2. CASE M = "permissive" /\ A = Null
    <3> DEFINE x == Plain("default-src", {"self"})
               y == Plain("script-src", {"self", "unsafe-inline", "unsafe-eval"})
    <3>1. csp = <<x, y>>
      BY <1>2, <2>2, PolicyCases, PolicySent DEF Unsendable
    <3>2. x.name = "default-src" /\ y.name = "script-src"
      BY DEF Plain, Directive
    <3> HIDE DEF x, y, csp
    <3> QED
      BY <3>1, <3>2, TwoDirectives, Zenon
  <2>3. CASE M = "custom"
    <3> DEFINE x == Plain("custom", {M})
    <3>1. csp = <<x>>
      BY <2>3, PolicyCases, PolicySent DEF Unsendable
    <3>2. x.name = "custom"
      BY DEF Plain, Directive
    <3> HIDE DEF x, csp
    <3> QED
      BY <3>1, <3>2, OneDirective, Zenon
  <2> QED
    BY <1>1, <1>5, <2>1, <2>2, <2>3 DEF Unsendable
<1>6. ASSUME Sources(csp, "frame-ancestors") = Null
      PROVE  /\ "other" \in Framers(h) <=> FrameOptions(e) = "allow_from"
             /\ "trusted" \in Framers(h) <=> FrameOptions(e) = "allow_from"
  <2>1. Framers(h) = CASE h.frame = "deny"       -> {}
                       [] h.frame = "sameorigin" -> {"self"}
                       [] OTHER                  -> Sites
    BY <1>6, Zenon DEF Framers
  <2>2. FrameOptions(e) \in {"deny", "sameorigin", "allow_from", "allow_from_bad"}
    BY DEF FrameOptions, Parsed
  <2>3. /\ FrameOptions(e) # "allow_from" => h.frame \in {"deny", "sameorigin"}
        /\ FrameOptions(e) = "allow_from" => h.frame = "allow_from"
    BY <2>2 DEF FrameOptionsHeader
  <2>4. FrameOptions(e) = "allow_from" => Framers(h) = Sites
    BY <2>1, <2>3
  <2>5. FrameOptions(e) # "allow_from" => Framers(h) \in {{}, {"self"}}
    BY <2>1, <2>3
  <2> QED
    BY <2>4, <2>5 DEF Sites
<1> HIDE DEF csp, M, A
<1>7. CASE AncestorsSent(e)
  <2>1. Framers(h) = IF A = Null THEN {} ELSE {A}
    BY <1>3, <1>4, <1>7
  <2>2. A = Null \/ A = "trusted"
    BY <1>1, <1>3, <1>7
  <2>3. "other" \notin Framers(h) /\ ("trusted" \in Framers(h) <=> A = "trusted")
    BY <1>2, <2>1, <2>2
  <2> QED
    BY <1>7, <2>3 DEF A
<1>8. CASE ~AncestorsSent(e)
  BY <1>3, <1>5, <1>6, <1>8
<1> QED
  BY <1>7, <1>8

\* The settings with what cannot be read left out.
Clean(e) == [v \in SettingNames |->
                IF e[v] \in {"typo", "blank", "custom_blank", "allow_from_blank"} THEN "unset" ELSE e[v]]

\* A setting that cannot be read has the effect of one that is not there.
LEMMA CleanIsEnough ==
    ASSUME NEW e \in Settings, NEW n, NEW kind
    PROVE  HeadersOf(Clean(e), n, kind) = HeadersOf(e, n, kind)
<1> DEFINE c == Clean(e)
           unread == {"typo", "blank", "custom_blank", "allow_from_blank"}
<1>1. \A v \in SettingNames : c[v] = IF e[v] \in unread THEN "unset" ELSE e[v]
  BY DEF Clean
<1>2. SettingNames = {"APP_ENV", "CSP_MODE", "FRAME_OPTIONS", "FRAME_ANCESTORS", "HSTS_ENABLED", "HSTS_MAX_AGE",
                      "HSTS_SUBDOMAINS", "HSTS_PRELOAD", "REFERRER_POLICY", "PERMISSIONS_POLICY"}
  BY DEF SettingNames, SettingValues
<1> HIDE DEF c
<1>3. /\ c.APP_ENV = IF e.APP_ENV \in unread THEN "unset" ELSE e.APP_ENV
      /\ c.CSP_MODE = IF e.CSP_MODE \in unread THEN "unset" ELSE e.CSP_MODE
      /\ c.FRAME_OPTIONS = IF e.FRAME_OPTIONS \in unread THEN "unset" ELSE e.FRAME_OPTIONS
      /\ c.FRAME_ANCESTORS = IF e.FRAME_ANCESTORS \in unread THEN "unset" ELSE e.FRAME_ANCESTORS
      /\ c.HSTS_ENABLED = IF e.HSTS_ENABLED \in unread THEN "unset" ELSE e.HSTS_ENABLED
  BY <1>1, <1>2
<1>4. /\ c.HSTS_MAX_AGE = IF e.HSTS_MAX_AGE \in unread THEN "unset" ELSE e.HSTS_MAX_AGE
      /\ c.HSTS_SUBDOMAINS = IF e.HSTS_SUBDOMAINS \in unread THEN "unset" ELSE e.HSTS_SUBDOMAINS
      /\ c.HSTS_PRELOAD = IF e.HSTS_PRELOAD \in unread THEN "unset" ELSE e.HSTS_PRELOAD
      /\ c.REFERRER_POLICY = IF e.REFERRER_POLICY \in unread THEN "unset" ELSE e.REFERRER_POLICY
      /\ c.PERMISSIONS_POLICY = IF e.PERMISSIONS_POLICY \in unread THEN "unset" ELSE e.PERMISSIONS_POLICY
  BY <1>1, <1>2
<1>5. e.APP_ENV \in {"production", "development"} /\ e.FRAME_ANCESTORS \in {"unset", "blank", "trusted", "bad"}
  BY PagesAssumption DEF SettingNames, SettingValues
<1>6. CspMode(c) = CspMode(e)
  BY <1>3 DEF CspMode, Parsed
<1>7. FrameAncestors(c) = FrameAncestors(e)
  BY <1>3, <1>5 DEF FrameAncestors
<1>8. FrameOptions(c) = FrameOptions(e)
  BY <1>3 DEF FrameOptions, Parsed
<1>9. HstsHeader(c) = HstsHeader(e)
  <2>1. hsts_enabled(c) = hsts_enabled(e)
    BY <1>3, <1>5 DEF hsts_enabled, ParsedBool
  <2>2. /\ ParsedBool(c.HSTS_SUBDOMAINS, TRUE) = ParsedBool(e.HSTS_SUBDOMAINS, TRUE)
        /\ ParsedBool(c.HSTS_PRELOAD, FALSE) = ParsedBool(e.HSTS_PRELOAD, FALSE)
        /\ c.HSTS_MAX_AGE = "zero" <=> e.HSTS_MAX_AGE = "zero"
    BY <1>4 DEF ParsedBool
  <2> QED
    BY <2>1, <2>2, Zenon DEF HstsHeader
<1>10. ReferrerPolicy(c) = ReferrerPolicy(e) /\ PermissionsPolicy(c) = PermissionsPolicy(e)
  BY <1>4 DEF ReferrerPolicy, PermissionsPolicy, Parsed
<1>11. CspHeader(c, n) = CspHeader(e, n)
  <2>1. GenerateCsp(c, n) = GenerateCsp(e, n)
    BY <1>6, <1>7, Zenon DEF GenerateCsp
  <2> QED
    BY <2>1, Zenon DEF CspHeader
<1>12. FrameOptionsHeader(c) = FrameOptionsHeader(e) /\ PermissionsHeader(c) = PermissionsHeader(e)
  BY <1>8, <1>10, Zenon DEF FrameOptionsHeader, PermissionsHeader
<1> QED
  BY <1>9, <1>10, <1>11, <1>12, Zenon DEF HeadersOf, c

-----------------------------------------------------------------------------
(* The requests of the tabs.  A nonce passes from the request it was made    *)
(* for to the document that shows the answer, and no two of these share one. *)

Headers == {HeadersOf(e, n, kind) : e \in Settings, n \in 1 .. MaxMinted, kind \in Kinds}
Request == [kind : Kinds, at : {"handler", "rendered", "sent"}, nonce : 1 .. MaxMinted,
            body : 1 .. MaxMinted \cup {Null}, headers : Headers \cup {Null}]
Document == [headers : Headers, nonce : 1 .. MaxMinted \cup {Null},
             fragments : SUBSET (1 .. MaxMinted \cup {Null})]

\* A request has a nonce of its own, and in time a body and headers with it.
Underway(q, e, m) ==
    /\ q \in Request /\ q.nonce <= m
    /\ q.at # "sent" => q.headers = Null
    /\ q.at # "handler" => q.body = IF FromContext(q.kind) THEN q.nonce ELSE Null
    /\ q.at = "sent" => q.headers = HeadersOf(e, q.nonce, q.kind)

\* A document came with the headers for its own nonce, if it was rendered with one.
Displayed(d, e, m) ==
    /\ d \in Document
    /\ d.nonce # Null => d.nonce <= m
    /\ \E n \in 1 .. MaxMinted, kind \in Kinds :
          d.headers = HeadersOf(e, n, kind) /\ (d.nonce # Null => n = d.nonce)

PagesInv ==
    /\ settings \in Settings /\ minted \in 0 .. MaxMinted
    /\ request \in [Tabs -> Request \cup {Null}]
    /\ doc \in [Tabs -> Document \cup {Null}]
    /\ stored = {}
    /\ \A t \in Tabs : request[t] # Null => /\ Underway(request[t], settings, minted)
                                            /\ request[t].kind = "fragment" => doc[t] # Null
    /\ \A t \in Tabs : doc[t] # Null => Displayed(doc[t], settings, minted)
    /\ \A t, u \in Tabs : request[t] # Null /\ request[u] # Null /\ request[t].nonce = request[u].nonce => t = u
    /\ \A t, u \in Tabs :
          doc[t] # Null /\ doc[u] # Null /\ doc[t].nonce = doc[u].nonce /\ doc[t].nonce # Null => t = u
    /\ \A t, u \in Tabs : request[t] # Null /\ doc[u] # Null => request[t].nonce # doc[u].nonce

\* The headers of an answer.
LEMMA HeadersType ==
    ASSUME NEW e \in Settings, NEW n \in 1 .. MaxMinted, NEW kind \in Kinds
    PROVE  HeadersOf(e, n, kind) \in Headers
BY DEF Headers

\* Nothing is asked for yet.
LEMMA PagesStart == PageInit => PagesInv
<1> SUFFICES ASSUME PageInit PROVE PagesInv
  OBVIOUS
<1>1. minted \in 0 .. MaxMinted
  BY PagesAssumption DEF PageInit
<1>2. /\ settings \in Settings /\ request \in [Tabs -> Request \cup {Null}]
      /\ doc \in [Tabs -> Document \cup {Null}] /\ stored = {}
      /\ \A t \in Tabs : request[t] = Null /\ doc[t] = Null
  BY DEF PageInit
<1> QED
  BY <1>1, <1>2 DEF PagesInv

\* Ask mints a nonce nobody has.
LEMMA AskStep ==
    ASSUME PagesInv, NEW t \in Tabs, NEW kind \in Kinds, Ask(t, kind)
    PROVE  PagesInv'
<1> DEFINE q == [kind |-> kind, at |-> "handler", nonce |-> minted + 1, body |-> Null, headers |-> Null]
<1>1. /\ request[t] = Null /\ minted < MaxMinted /\ minted' = minted + 1
      /\ request' = [request EXCEPT ![t] = q] /\ UNCHANGED <<settings, doc, stored>>
      /\ kind = "fragment" => doc[t] # Null
  BY DEF Ask, GenerateNonce
<1>2. minted \in Nat /\ minted' \in 1 .. MaxMinted /\ minted' \in 0 .. MaxMinted
  BY <1>1, PagesAssumption DEF PagesInv
<1>3. q \in Request /\ q.nonce = minted' /\ q.at = "handler" /\ q.headers = Null /\ q.kind = kind
  BY <1>1, <1>2 DEF Request
<1> HIDE DEF q
<1>4. /\ request' \in [Tabs -> Request \cup {Null}] /\ request'[t] = q
      /\ \A u \in Tabs : u # t => request'[u] = request[u]
  BY <1>1, <1>3 DEF PagesInv
<1>5. \A u \in Tabs : /\ request[u] # Null => request[u].nonce <= minted /\ request[u].nonce \in Int
                      /\ doc[u] # Null => \/ doc[u].nonce = Null
                                          \/ doc[u].nonce <= minted /\ doc[u].nonce \in Int
  BY DEF PagesInv, Underway, Displayed, Request, Document
<1>6. Underway(q, settings, minted')
  BY <1>2, <1>3 DEF Underway
<1>7. ASSUME NEW u \in Tabs, request[u] # Null PROVE Underway(request[u], settings, minted')
  BY <1>1, <1>2, <1>5, <1>7 DEF PagesInv, Underway
<1>8. ASSUME NEW u \in Tabs, doc[u] # Null PROVE Displayed(doc[u], settings, minted')
  BY <1>1, <1>2, <1>5, <1>8 DEF PagesInv, Displayed
<1>9. \A u \in Tabs : /\ request[u] # Null => request[u].nonce # q.nonce
                      /\ doc[u] # Null => doc[u].nonce # q.nonce
  BY <1>1, <1>2, <1>3, <1>5, PagesAssumption
<1> DEFINE R == request'
<1>10. \A u \in Tabs : R[u] # Null => /\ Underway(R[u], settings, minted')
                                      /\ R[u].kind = "fragment" => doc[u] # Null
  BY <1>1, <1>3, <1>4, <1>6, <1>7 DEF PagesInv
<1>11. \A u, v \in Tabs : R[u] # Null /\ R[v] # Null /\ R[u].nonce = R[v].nonce => u = v
  BY <1>4, <1>9, Zenon DEF PagesInv
<1>12. \A u, v \in Tabs : R[u] # Null /\ doc[v] # Null => R[u].nonce # doc[v].nonce
  BY <1>4, <1>9, Zenon DEF PagesInv
<1> QED
  BY <1>1, <1>2, <1>4, <1>8, <1>10, <1>11, <1>12 DEF PagesInv

\* Render and Apply move one request on.
LEMMA MoveStep ==
    ASSUME PagesInv, NEW t \in Tabs, NEW q, request[t] # Null,
           Underway(q, settings, minted), q.kind = request[t].kind, q.nonce = request[t].nonce,
           request' = [request EXCEPT ![t] = q], UNCHANGED <<settings, minted, doc, stored>>
    PROVE  PagesInv'
<1> DEFINE R == request'
<1>1. q \in Request
  BY DEF Underway
<1>2. /\ R \in [Tabs -> Request \cup {Null}] /\ R[t] = q
      /\ \A u \in Tabs : u # t => R[u] = request[u]
  BY <1>1 DEF PagesInv
<1>3. \A u \in Tabs : R[u] # Null => /\ Underway(R[u], settings, minted)
                                     /\ R[u].kind = "fragment" => doc[u] # Null
  BY <1>2 DEF PagesInv
<1>4. \A u \in Tabs : R[u] # Null => request[u] # Null /\ R[u].nonce = request[u].nonce
  BY <1>2, Zenon
<1>5. \A u, v \in Tabs : R[u] # Null /\ R[v] # Null /\ R[u].nonce = R[v].nonce => u = v
  BY <1>4 DEF PagesInv
<1>6. \A u, v \in Tabs : R[u] # Null /\ doc[v] # Null => R[u].nonce # doc[v].nonce
  BY <1>4 DEF PagesInv
<1> QED
  BY <1>2, <1>3, <1>5, <1>6 DEF PagesInv

\* A handler renders its answer with the nonce of its own request.
LEMMA RenderStep ==
    ASSUME PagesInv, NEW t \in Tabs, Render(t)
    PROVE  PagesInv'
<1> DEFINE r == request[t]
           b == IF FromContext(r.kind) THEN CurrentCspNonce(t) ELSE Null
           q == [r EXCEPT !.at = "rendered", !.body = b]
<1>1. /\ r # Null /\ r.at = "handler" /\ UNCHANGED <<settings, minted, doc, stored>>
      /\ request' = [request EXCEPT ![t].at = "rendered", ![t].body = b]
  BY DEF Render
<1>2. Underway(r, settings, minted)
  BY <1>1 DEF PagesInv
<1>3. r \in Request /\ r.nonce <= minted /\ r.headers = Null
  BY <1>1, <1>2 DEF Underway
<1>4. b \in 1 .. MaxMinted \cup {Null} /\ b = IF FromContext(r.kind) THEN r.nonce ELSE Null
  BY <1>3 DEF CurrentCspNonce, Request
<1>5. request' = [request EXCEPT ![t] = q]
  BY <1>1 DEF PagesInv
<1> HIDE DEF b, r
<1>6. /\ q \in Request /\ q.kind = r.kind /\ q.nonce = r.nonce /\ q.at = "rendered" /\ q.body = b
      /\ q.headers = r.headers
  BY <1>3, <1>4 DEF Request
<1> HIDE DEF q
<1>7. Underway(q, settings, minted)
  BY <1>3, <1>4, <1>6 DEF Underway
<1> QED
  BY <1>1, <1>5, <1>6, <1>7, MoveStep DEF r

\* The layer adds the headers for that nonce.
LEMMA ApplyStep ==
    ASSUME PagesInv, NEW t \in Tabs, Apply(t)
    PROVE  PagesInv'
<1> DEFINE r == request[t]
           h == HeadersOf(settings, r.nonce, r.kind)
           q == [r EXCEPT !.at = "sent", !.headers = h]
<1>1. /\ r # Null /\ r.at = "rendered" /\ UNCHANGED <<settings, minted, doc, stored>>
      /\ request' = [request EXCEPT ![t].at = "sent", ![t].headers = h]
  BY DEF Apply
<1>2. Underway(r, settings, minted) /\ settings \in Settings
  BY <1>1 DEF PagesInv
<1>3. r \in Request /\ r.nonce <= minted
  BY <1>1, <1>2 DEF Underway
<1>4. r.kind \in Kinds /\ r.nonce \in 1 .. MaxMinted
  BY <1>3 DEF Request
<1>5. h \in Headers
  BY <1>2, <1>4, HeadersType
<1>6. request' = [request EXCEPT ![t] = q]
  BY <1>1 DEF PagesInv
<1> HIDE DEF h
<1>7. /\ q \in Request /\ q.kind = r.kind /\ q.nonce = r.nonce /\ q.at = "sent" /\ q.body = r.body
      /\ q.headers = h
  <2> HIDE DEF r
  <2> QED
    BY <1>3, <1>5 DEF Request
<1> HIDE DEF q, r
<1>8. r.body = IF FromContext(r.kind) THEN r.nonce ELSE Null
  BY <1>1, <1>2 DEF Underway
<1>9. Underway(q, settings, minted)
  BY <1>3, <1>7, <1>8 DEF Underway, h
<1> QED
  BY <1>1, <1>6, <1>7, <1>9, MoveStep DEF r

\* Show hands the nonce of the request over to the document, or drops it.
LEMMA ShowStep ==
    ASSUME PagesInv, NEW t \in Tabs, Show(t)
    PROVE  PagesInv'
<1> DEFINE r == request[t]
           old == doc[t]
           page == [headers |-> r.headers, nonce |-> r.body, fragments |-> {}]
           R == request'
           D == doc'
<1>1. /\ r # Null /\ r.at = "sent" /\ R = [request EXCEPT ![t] = Null] /\ UNCHANGED <<settings, minted>>
      /\ stored' = IF r.headers.no_store THEN stored ELSE stored \cup ({r.body} \ {Null})
      /\ D = [doc EXCEPT ![t] =
             CASE r.kind = "fragment" -> Swapped(old, r.body)
               [] IsDocument(r.kind)  -> page
               [] OTHER               -> old]
  <2>1. /\ r # Null /\ r.at = "sent" /\ R = [request EXCEPT ![t] = Null] /\ UNCHANGED <<settings, minted>>
        /\ stored' = IF r.headers.no_store THEN stored ELSE stored \cup ({r.body} \ {Null})
    BY DEF Show
  <2>2. D = [doc EXCEPT ![t] =
             CASE r.kind = "fragment" -> Swapped(old, r.body)
               [] IsDocument(r.kind)  -> page
               [] OTHER               -> old]
    BY DEF Show
  <2> QED
    BY <2>1, <2>2
<1>2. /\ Underway(r, settings, minted) /\ settings \in Settings /\ (r.kind = "fragment" => old # Null)
      /\ doc \in [Tabs -> Document \cup {Null}] /\ request \in [Tabs -> Request \cup {Null}]
  BY <1>1 DEF PagesInv
<1>3. /\ r \in Request /\ r.nonce <= minted /\ r.headers = HeadersOf(settings, r.nonce, r.kind)
      /\ r.body = IF FromContext(r.kind) THEN r.nonce ELSE Null
  BY <1>1, <1>2 DEF Underway
<1>4. r.kind \in Kinds /\ r.nonce \in 1 .. MaxMinted /\ r.body \in 1 .. MaxMinted \cup {Null}
  BY <1>3 DEF Request
<1>5. r.headers \in Headers /\ r.headers.no_store = NoStore(r.kind)
  <2>1. r.headers \in Headers
    BY <1>2, <1>3, <1>4, HeadersType
  <2>2. r.headers.no_store = NoStore(r.kind)
    BY <1>3 DEF HeadersOf
  <2> QED
    BY <2>1, <2>2
<1>6. stored' = {}
  <2>1. stored = {}
    BY DEF PagesInv
  <2>2. ~NoStore(r.kind) => ~FromContext(r.kind)
    BY <1>4 DEF NoStore, IsHtml, FromContext
  <2>3. ~NoStore(r.kind) => r.body = Null
    BY <1>3, <2>2
  <2> QED
    BY <1>1, <1>5, <2>1, <2>3
<1>7. /\ R \in [Tabs -> Request \cup {Null}] /\ R[t] = Null
      /\ \A u \in Tabs : u # t => R[u] = request[u]
  BY <1>1, <1>2
<1>8. /\ D[t] = CASE r.kind = "fragment" -> Swapped(old, r.body)
                  [] IsDocument(r.kind)  -> page
                  [] OTHER               -> old
      /\ \A u \in Tabs : u # t => D[u] = doc[u]
      /\ D[t] \in Document \cup {Null} => D \in [Tabs -> Document \cup {Null}]
  BY <1>1, <1>2
<1>9. old # Null => Displayed(old, settings, minted)
  BY DEF PagesInv
<1>10. /\ D[t] \in Document \cup {Null}
       /\ D[t] # Null => /\ Displayed(D[t], settings, minted)
                         /\ \/ D[t].nonce = Null \/ D[t].nonce = r.nonce
                            \/ old # Null /\ D[t].nonce = old.nonce
  <2>1. CASE r.kind = "fragment"
    <3> DEFINE d == Swapped(old, r.body)
    <3>1. D[t] = d
      <4>1. ~IsDocument(r.kind)
        BY <2>1 DEF IsDocument
      <4> QED
        BY <1>8, <2>1, <4>1
    <3>2. old \in Document /\ old # Null /\ Displayed(old, settings, minted)
      BY <1>2, <1>9, <2>1 DEF Displayed
    <3> HIDE DEF r, old
    <3>3. d \in Document /\ d.nonce = old.nonce /\ d.headers = old.headers
      BY <1>4, <3>2 DEF Document, Swapped
    <3> HIDE DEF d
    <3>4. Displayed(d, settings, minted)
      BY <3>2, <3>3 DEF Displayed
    <3> QED
      BY <3>1, <3>2, <3>3, <3>4
  <2>2. CASE IsDocument(r.kind)
    <3>1. r.kind # "fragment"
      BY <2>2 DEF IsDocument
    <3>2. D[t] = page
      BY <1>8, <2>2, <3>1
    <3> HIDE DEF r
    <3>3. page \in Document /\ page.nonce = r.body /\ page.headers = r.headers
      BY <1>3, <1>4, <1>5 DEF Document
    <3>4. r.body = Null \/ r.body = r.nonce
      BY <1>3
    <3> HIDE DEF page
    <3>5. page.nonce # Null => page.nonce = r.nonce /\ page.nonce <= minted
      BY <1>3, <3>3, <3>4
    <3>6. Displayed(page, settings, minted)
      BY <1>3, <1>4, <3>3, <3>5, Zenon DEF Displayed
    <3> QED
      BY <3>2, <3>3, <3>4, <3>6
  <2>3. CASE r.kind # "fragment" /\ ~IsDocument(r.kind)
    <3>1. D[t] = old
      BY <1>8, <2>3
    <3> QED
      BY <1>2, <1>9, <3>1
  <2> QED
    BY <2>1, <2>2, <2>3
<1> HIDE DEF old, page
<1>11. \A u \in Tabs : R[u] # Null => request[u] # Null /\ R[u] = request[u] /\ u # t
  BY <1>7
<1>12. \A u \in Tabs : R[u] # Null => /\ Underway(R[u], settings, minted)
                                      /\ R[u].kind = "fragment" => D[u] # Null
  BY <1>8, <1>11 DEF PagesInv
<1>13. \A u \in Tabs : D[u] # Null => Displayed(D[u], settings, minted)
  BY <1>8, <1>10 DEF PagesInv
<1>14. \A u, v \in Tabs : R[u] # Null /\ R[v] # Null /\ R[u].nonce = R[v].nonce => u = v
  BY <1>11 DEF PagesInv
<1>15. \A u \in Tabs : D[u] # Null /\ D[u].nonce # Null /\ u # t => D[t] = Null \/ D[u].nonce # D[t].nonce
  <2> SUFFICES ASSUME NEW u \in Tabs, D[u] # Null, D[u].nonce # Null, u # t, D[t] # Null
               PROVE  D[u].nonce # D[t].nonce
    OBVIOUS
  <2>1. D[u] = doc[u] /\ doc[u] # Null
    BY <1>8
  <2>2. doc[u].nonce # r.nonce
    BY <1>1, <2>1 DEF PagesInv
  <2>3. old # Null => doc[u].nonce # old.nonce
    BY <2>1 DEF PagesInv, old
  <2> QED
    BY <1>10, <2>1, <2>2, <2>3
<1>16. \A u, v \in Tabs :
          D[u] # Null /\ D[v] # Null /\ D[u].nonce = D[v].nonce /\ D[u].nonce # Null => u = v
  <2> SUFFICES ASSUME NEW u \in Tabs, NEW v \in Tabs, D[u] # Null, D[v] # Null,
                      D[u].nonce = D[v].nonce, D[u].nonce # Null, u # v
               PROVE  FALSE
    OBVIOUS
  <2>1. u # t /\ v # t
    <3>1. D[v].nonce # Null
      OBVIOUS
    <3> HIDE DEF D
    <3>2. u # t => v # t
      BY <1>15, <3>1, Zenon
    <3>3. v # t => u # t
      BY <1>15, <3>1, Zenon
    <3> QED
      BY <3>2, <3>3
  <2>2. D[u] = doc[u] /\ D[v] = doc[v]
    BY <1>8, <2>1
  <2> QED
    BY <2>2 DEF PagesInv
<1>17. \A u, v \in Tabs : R[u] # Null /\ D[v] # Null => R[u].nonce # D[v].nonce
  <2> SUFFICES ASSUME NEW u \in Tabs, NEW v \in Tabs, R[u] # Null, D[v] # Null
               PROVE  R[u].nonce # D[v].nonce
    OBVIOUS
  <2>1. request[u] # Null /\ R[u] = request[u] /\ u # t
    BY <1>11
  <2>2. CASE v = t
    <3>1. request[u].nonce # r.nonce
      BY <1>1, <2>1 DEF PagesInv
    <3>2. old # Null => request[u].nonce # old.nonce
      BY <2>1 DEF PagesInv, old
    <3>3. request[u].nonce # Null
      BY <2>1, PagesAssumption DEF PagesInv, Underway, Request
    <3> QED
      BY <1>10, <2>1, <2>2, <3>1, <3>2, <3>3
  <2>3. CASE v # t
    BY <1>8, <2>1, <2>3 DEF PagesInv
  <2> QED
    BY <2>2, <2>3
<1> QED
  BY <1>1, <1>6, <1>7, <1>8, <1>10, <1>12, <1>13, <1>14, <1>16, <1>17 DEF PagesInv

\* Every step keeps the nonces apart.
LEMMA PagesStep == PagesInv /\ [PageNext]_pageVars => PagesInv'
<1> SUFFICES ASSUME PagesInv, [PageNext]_pageVars PROVE PagesInv'
  OBVIOUS
<1>1. CASE UNCHANGED pageVars
  BY <1>1 DEF PagesInv, pageVars
<1> QED
  BY <1>1, AskStep, RenderStep, ApplyStep, ShowStep DEF PageNext

\* What a document shown has to do with the settings.
LEMMA ShownFacts ==
    ASSUME PagesInv, NEW t \in Shown
    PROVE  /\ t \in Tabs /\ doc[t] # Null /\ settings \in Settings
           /\ \E n \in 1 .. MaxMinted : /\ doc[t].headers.csp = CspHeader(settings, n)
                                        /\ doc[t].nonce # Null => n = doc[t].nonce
           /\ doc[t].headers.frame = FrameOptionsHeader(settings)
<1>1. t \in Tabs /\ doc[t] # Null
  BY DEF Shown
<1>2. Displayed(doc[t], settings, minted) /\ settings \in Settings
  BY <1>1 DEF PagesInv
<1>3. PICK n \in 1 .. MaxMinted, kind \in Kinds :
         doc[t].headers = HeadersOf(settings, n, kind) /\ (doc[t].nonce # Null => n = doc[t].nonce)
  BY <1>2 DEF Displayed
<1>4. /\ doc[t].headers.csp = CspHeader(settings, n)
      /\ doc[t].headers.frame = FrameOptionsHeader(settings)
  BY <1>3 DEF HeadersOf
<1> QED
  BY <1>1, <1>2, <1>3, <1>4

\* For every environment, and however the headers and their fallbacks combine: scripts and
\* framing are open to others exactly where the settings that can be read open them, and
\* with a readable ALLOW-FROM and no ancestors in the policy framing is open to every site.
THEOREM PoliciesAsAsked == PageSpec => []OnlyAsOpenAsAsked
<1>1. ASSUME PagesInv PROVE ScriptsOnlyAsAsked
  <2> SUFFICES ASSUME NEW t \in Shown, ScriptRuns(doc[t].headers.csp, 0)
               PROVE  settings.CSP_MODE \in {"permissive", "custom"}
    BY DEF ScriptsOnlyAsAsked
  <2>1. settings \in Settings /\ \E n \in 1 .. MaxMinted : doc[t].headers.csp = CspHeader(settings, n)
    BY <1>1, ShownFacts
  <2> QED
    BY <2>1, ScriptsEnforced
<1>2. ASSUME PagesInv PROVE FramedOnlyAsAsked
  <2> SUFFICES ASSUME NEW t \in Shown
               PROVE  /\ "other" \in Framers(doc[t].headers)
                           <=> FrameOptions(settings) = "allow_from" /\ ~AncestorsSent(settings)
                      /\ "trusted" \in Framers(doc[t].headers)
                           <=> \/ FrameAncestors(settings) = "trusted" /\ AncestorsSent(settings)
                               \/ FrameOptions(settings) = "allow_from" /\ ~AncestorsSent(settings)
    BY DEF FramedOnlyAsAsked
  <2>1. /\ settings \in Settings /\ \E n \in 1 .. MaxMinted : doc[t].headers.csp = CspHeader(settings, n)
        /\ doc[t].headers.frame = FrameOptionsHeader(settings)
    BY <1>2, ShownFacts
  <2> QED
    BY <2>1, FramesEnforced
<1>3. ASSUME PagesInv PROVE UnreadableIsUnset
  <2> SUFFICES ASSUME NEW t \in Tabs, request[t] # Null, request[t].at = "sent"
               PROVE  request[t].headers = HeadersOf(Clean(settings), request[t].nonce, request[t].kind)
    BY DEF UnreadableIsUnset, Clean
  <2>1. request[t].headers = HeadersOf(settings, request[t].nonce, request[t].kind) /\ settings \in Settings
    BY <1>3 DEF PagesInv, Underway
  <2> QED
    BY <2>1, CleanIsEnough
<1> QED
  BY <1>1, <1>2, <1>3, PagesStart, PagesStep, PTL DEF PageSpec, OnlyAsOpenAsAsked

\* A nonce serves one page once, for any number of tabs whose requests overlap.
THEOREM NoncesServeOnce == PageSpec => []NonceServesOnce
<1>1. ASSUME PagesInv PROVE PageTypeOK
  <2>1. ASSUME NEW t \in Tabs, request[t] # Null
        PROVE  /\ request[t].kind \in Kinds /\ request[t].at \in {"handler", "rendered", "sent"}
               /\ request[t].nonce \in 1 .. minted
               /\ (request[t].at = "sent") = (request[t].headers # Null)
    <3> DEFINE q == request[t]
    <3>1. Underway(q, settings, minted) /\ settings \in Settings /\ minted \in Nat
      BY <1>1, <2>1, PagesAssumption DEF PagesInv
    <3>2. q.kind \in Kinds /\ q.at \in {"handler", "rendered", "sent"} /\ q.nonce \in 1 .. MaxMinted /\ q.nonce <= minted
      BY <3>1 DEF Underway, Request
    <3>3. q.nonce \in 1 .. minted
      BY <3>1, <3>2, PagesAssumption
    <3>4. q.at = "sent" <=> q.headers # Null
      BY <3>1, <3>2, HeadersAssumption DEF Underway
    <3> QED
      BY <3>2, <3>3, <3>4
  <2> QED
    BY <1>1, <2>1 DEF PagesInv, PageTypeOK
<1>2. ASSUME PagesInv PROVE NonceOfItsOwn
  <2> SUFFICES ASSUME NEW t \in Rendered, NEW u \in Rendered
               PROVE  /\ CspMode(settings) = "strict" /\ FrameAncestors(settings) # "bad"
                           => (ScriptRuns(doc[t].headers.csp, doc[u].nonce) <=> t = u)
                      /\ doc[t].nonce = doc[u].nonce => t = u
    BY DEF NonceOfItsOwn
  <2>1. t \in Shown /\ u \in Shown /\ doc[t].nonce # Null /\ doc[u].nonce # Null
    BY DEF Rendered
  <2>2. doc[t].nonce = doc[u].nonce => t = u
    BY <1>2, <2>1, ShownFacts DEF PagesInv
  <2>3. /\ doc[t].headers.csp = CspHeader(settings, doc[t].nonce) /\ settings \in Settings
        /\ doc[t].nonce \in 1 .. MaxMinted
    BY <1>2, <2>1, ShownFacts
  <2>4. CspMode(settings) = "strict" /\ FrameAncestors(settings) # "bad"
          => (ScriptRuns(doc[t].headers.csp, doc[u].nonce) <=> doc[u].nonce = doc[t].nonce)
    BY <2>3, ScriptsEnforced
  <2> QED
    BY <2>2, <2>4
<1>3. ASSUME PagesInv PROVE ContextsNotStored
  BY <1>3 DEF PagesInv, ContextsNotStored
<1> QED
  BY <1>1, <1>2, <1>3, PagesStart, PagesStep, PTL DEF PageSpec, NonceServesOnce
=============================================================================
