------------------------------ MODULE ClientAddr ------------------------------
(***************************************************************************)
(* src/src/client_addr.rs: whose address a connection is reported under.   *)
(*                                                                         *)
(* An address is a family and a word of the family's width, the first bit  *)
(* first.  IPv4-mapped IPv6 addresses are those that start with            *)
(* MappedPrefix.  A missing value is None.                                 *)
(***************************************************************************)
EXTENDS Integers, Sequences, SequencesExt

CONSTANTS
    Width,          \* of an address: "v4" -> 32, "v6" -> 128 (both much smaller for TLC)
    MappedPrefix,   \* the bits before the IPv4 address in a mapped one (::ffff:0:0/96)
    None

Word(w) == [1 .. w -> {0, 1}]

Ip(family, bits) == [family |-> family, bits |-> bits]

Address == UNION {{Ip(family, bits) : bits \in Word(Width[family])} : family \in {"v4", "v6"}}

ASSUME ClientAddrAssumption ==
    /\ Width \in [{"v4", "v6"} -> Nat \ {0}] /\ Width["v4"] <= Width["v6"]
    /\ MappedPrefix \in Word(Width["v6"] - Width["v4"])
    /\ None \notin Address

-----------------------------------------------------------------------------
(* Ranges *)

\* IpAddr::to_canonical
to_canonical(ip) ==
    LET n == Width["v6"] - Width["v4"]
    IN  IF ip.family = "v6" /\ \A i \in 1 .. n : ip.bits[i] = MappedPrefix[i]
        THEN Ip("v4", [i \in 1 .. Width["v4"] |-> ip.bits[n + i]]) ELSE ip

\* FromStr: "prefix" is None, or the number after the slash.  The set is empty on an error.
from_str(ip, prefix) ==
    LET length == IF prefix = None THEN Width[ip.family] ELSE prefix
    IN  {r \in {[addr |-> ip, prefix |-> length]} :
            to_canonical(ip) = ip /\ length <= Width[ip.family]}

\* MAX << n
ShiftedOnes(w, n) == [i \in 1 .. w |-> IF i + n <= w THEN 1 ELSE 0]

\* Mutant: a shift by the whole width does not shift at all.
Mask_wraps(w, prefix) == ShiftedOnes(w, (w - prefix) % w)

\* MAX.checked_shl(w - prefix).unwrap_or(0): there is no shift by the whole width.
Mask(w, prefix) ==
    IF w - prefix < w THEN ShiftedOnes(w, w - prefix) ELSE [i \in 1 .. w |-> 0]

\* a & b
BitAnd(a, b, w) == [i \in 1 .. w |-> IF a[i] = 1 /\ b[i] = 1 THEN 1 ELSE 0]

\* IpRange::contains
range_contains(range, address) ==
    LET ip == to_canonical(address)
        w == Width[ip.family]
        mask == Mask(w, range.prefix)
    IN  /\ range.addr.family = ip.family
        /\ BitAnd(range.addr.bits, mask, w) = BitAnd(ip.bits, mask, w)

\* TrustedProxies::contains
contains(ranges, ip) == \E i \in 1 .. Len(ranges) : range_contains(ranges[i], ip)

\* The ranges that can be configured: the number after the slash is a u8.
IpRange == UNION {from_str(ip, prefix) : ip \in Address, prefix \in {None} \cup 0 .. 255}

-----------------------------------------------------------------------------
(* X-Forwarded-For *)

AddressForms == {"ip", "ip:port", "[ip]"}

\* An entry is empty, an address (alone, with a port, in brackets), or anything else.
Entry == [form : AddressForms, ip : Address] \cup [form : {"other", "empty"}, ip : {None}]

\* A line of the header is perhaps no UTF-8.
HeaderLine == [utf8 : BOOLEAN, entries : Seq(Entry)]

parse_forwarded_address(entry) ==
    IF entry.form \in AddressForms THEN to_canonical(entry.ip) ELSE None

\* The entry is not one of the trusted proxies.
Stops(ranges, entry) ==
    \/ parse_forwarded_address(entry) = None
    \/ ~contains(ranges, parse_forwarded_address(entry))

\* Mutant: the entries are read from the left.
StopAt_from_left(ranges, entries) ==
    SelectInSeq(entries, LAMBDA entry : Stops(ranges, entry))

\* Where the search from the right ends, or 0.
StopAt(ranges, entries) == SelectLastInSeq(entries, LAMBDA entry : Stops(ranges, entry))

\* The client is the entry the search ends at (None if that is no address); when every
\* entry is a trusted proxy, the leftmost.
select_client(ranges, entries) ==
    LET i == StopAt(ranges, entries)
    IN  IF entries = << >> THEN None
        ELSE parse_forwarded_address(entries[IF i = 0 THEN 1 ELSE i])

\* An empty entry does not count.
NotEmpty(entry) == IF entry.form = "empty" THEN << >> ELSE <<entry>>

\* Nor does a line that is no text.
EntriesOf(line) ==
    IF line.utf8
    THEN FlattenSeq([i \in 1 .. Len(line.entries) |-> NotEmpty(line.entries[i])])
    ELSE << >>

\* The lines of the header are one list.
EntryList(lines) == FlattenSeq([i \in 1 .. Len(lines) |-> EntriesOf(lines[i])])

\* "lines" is << >> as well when the head does not parse.
forwarded_client(ranges, lines) == select_client(ranges, EntryList(lines))

\* What client_addr() reports, as ClientAddr is displayed: the client behind a trusted
\* proxy, else the peer.
client_addr(ranges, peer, lines) ==
    LET forwarded == IF contains(ranges, peer) THEN forwarded_client(ranges, lines) ELSE None
    IN  IF forwarded = None THEN peer ELSE forwarded

-----------------------------------------------------------------------------
(* What is to be computed *)

\* The addresses of a range are those that agree with it in the first "prefix" bits.
InBlock(range, address) ==
    LET ip == to_canonical(address)
    IN  /\ range.addr.family = ip.family
        /\ \A i \in 1 .. range.prefix : range.addr.bits[i] = ip.bits[i]

Trusted(ranges, ip) == \E i \in 1 .. Len(ranges) : InBlock(ranges[i], ip)

\* An entry that stops the search.
Foreign(ranges, entry) ==
    entry.form = "other" \/ ~Trusted(ranges, to_canonical(entry.ip))
=============================================================================
