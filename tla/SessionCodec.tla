----------------------------- MODULE SessionCodec -----------------------------
(***************************************************************************)
(* encode and decode of src/middleware/session.rs: the session map as a     *)
(* sequence of bytes.  The base64 layer around it is a lossless library     *)
(* call and is left out.  A string is a sequence of bytes below 0xff, which *)
(* is all UTF-8 ever uses.                                                  *)
(***************************************************************************)
EXTENDS Integers, Sequences, SequencesExt, FiniteSets

CONSTANTS
    Chars,        \* the bytes strings are made of
    MaxString,    \* bound: length of a key or a value
    MaxEntries    \* bound: entries of a session

Separator == 255

ASSUME CodecAssumption == Chars \subseteq 0..254 /\ MaxString \in Nat /\ MaxEntries \in Nat

VARIABLES
    data,     \* the session map the last response stored
    bytes     \* the bytes of the cookie; no cookie is no bytes

codecVars == <<data, bytes>>

Strings == SeqOf(Chars, MaxString)

\* Keys are never empty: the handlers use literals.
Keys == Strings \ {<< >>}

-----------------------------------------------------------------------------
\* Mutant: padding that is not a separator.
PaddedWithZero(s) ==
    LET n == CHOOSE k \in 0..2 : ((Len(s) + k) * 8) % 6 = 0
    IN  s \o [i \in 1..n |-> 0]

\* while ret.len() * 8 % 6 != 0 { ret.push(0xff) }
Padded(s) ==
    LET n == CHOOSE k \in 0..2 : ((Len(s) + k) * 8) % 6 = 0
    IN  s \o [i \in 1..n |-> Separator]

\* The bytes written for the first i entries of map h, visited in the given order.
Encoded(h, order) ==
    LET ret[i \in 0..Len(order)] ==
            IF i = 0 THEN << >>
            ELSE ret[i - 1] \o (IF i = 1 THEN << >> ELSE <<Separator>>) \o order[i] \o <<Separator>> \o h[order[i]]
    IN  ret

encode(h, order) == Padded(Encoded(h, order)[Len(order)])

\* One byte more: a separator starts a part, any other byte belongs to the last one.
Fed(parts, byte) ==
    IF byte = Separator THEN Append(parts, << >>)
    ELSE [parts EXCEPT ![Len(parts)] = Append(parts[Len(parts)], byte)]

\* bytes.split(|&a| a == 0xff), after each byte and at the end
Split(s) ==
    LET parts[i \in 0..Len(s)] == IF i = 0 THEN << << >> >> ELSE Fed(parts[i - 1], s[i])
    IN  parts

Parts(s) == Split(s)[Len(s)]

\* The pairs before the first empty key; a later pair replaces an earlier one.
decode(s) ==
    LET parts == Parts(s)
        key(i) == parts[2 * i - 1]
        read == {i \in 1..(Len(parts) \div 2) : \A j \in 1..i : key(j) # << >>}
    IN  [k \in {key(i) : i \in read} |-> parts[2 * Max({i \in read : key(i) = k})]]

-----------------------------------------------------------------------------
CodecInit == data = << >> /\ bytes = << >>

\* The maps a handler may leave: one key inserted or replaced, one removed.
Changed(h) ==
    {[x \in DOMAIN h \cup {k} |-> IF x = k THEN v ELSE h[x]] : k \in Keys, v \in Strings}
    \cup {[x \in DOMAIN h \ {k} |-> h[x]] : k \in Keys}

\* A request: the session is read from the cookie, changed and written back, its
\* entries in any order (a HashMap); an emptied session removes the cookie.
StoreSession ==
    \E h \in {c \in Changed(decode(bytes)) : Cardinality(DOMAIN c) <= MaxEntries} :
        /\ data' = h
        /\ IF h = << >> THEN bytes' = << >>
           ELSE \E order \in SetToSeqs(DOMAIN h) : bytes' = encode(h, order)

CodecSpec == CodecInit /\ [][StoreSession]_codecVars

-----------------------------------------------------------------------------
\* Whatever order the entries are written in, with empty values and with any
\* amount of padding, the next request reads the map that was stored.
RoundTrip == decode(bytes) = data
=============================================================================
