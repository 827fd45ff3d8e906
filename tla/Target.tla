-------------------------------- MODULE Target --------------------------------
(***************************************************************************)
(* src/src/target.rs: the target a path names, and its normal form.        *)
(*                                                                         *)
(* A text is a sequence of tokens: the three characters that the parser    *)
(* looks at, and words without any of them.  A result that may be missing  *)
(* is a set of at most one element.                                        *)
(***************************************************************************)
EXTENDS Naturals, Sequences

CONSTANTS
    NumberOf,     \* the words that are decimal numbers -> their value
    Decimal(_),   \* the word a number is written with
    MaxPort       \* u16::MAX

\* Writing a port and reading it again gives the port.
ASSUME TargetAssumption ==
    /\ DOMAIN NumberOf \cup {"[", "]", ":"} \subseteq STRING
    /\ DOMAIN NumberOf \cap {"[", "]", ":"} = {}
    /\ \A word \in DOMAIN NumberOf : NumberOf[word] \in Nat
    /\ \A word \in DOMAIN NumberOf :
          NumberOf[word] <= MaxPort =>
              Decimal(NumberOf[word]) \in DOMAIN NumberOf
              /\ NumberOf[Decimal(NumberOf[word])] = NumberOf[word]

\* A port is what parse::<u16>() takes: "080" and "+80" are 80.
IsPort(text) ==
    Len(text) = 1 /\ text[1] \in DOMAIN NumberOf /\ NumberOf[text[1]] <= MaxPort

SplitAt(text, i, j) == [host |-> SubSeq(text, 1, i), port |-> SubSeq(text, j, Len(text))]

\* The first "]:" that leaves a host between the brackets.
BracketEnd(text) ==
    LET ends == {i \in 2 .. Len(text) - 1 : text[i] = "]" /\ text[i + 1] = ":"}
    IN  {i \in ends : i > 2 /\ \A other \in ends : i <= other}

BracketSplit(text) == {SplitAt(text, i, i + 2) : i \in BracketEnd(text)}

Colons(text) == {i \in 1 .. Len(text) : text[i] = ":"}

\* Mutant: an address without brackets is cut at its last colon.
PlainSplit_last_colon(text) ==
    {SplitAt(text, i - 1, i + 1) :
        i \in {c \in Colons(text) : c > 1 /\ \A other \in Colons(text) : c >= other}}

\* rsplit_once, and no colon left in the host.
PlainSplit(text) ==
    {SplitAt(text, i - 1, i + 1) : i \in {c \in Colons(text) : c > 1 /\ Colons(text) = {c}}}

Split(text) == IF text # << >> /\ text[1] = "[" THEN BracketSplit(text) ELSE PlainSplit(text)

parse_host_port(text) ==
    {[host |-> s.host, port |-> NumberOf[s.port[1]]] : s \in {s \in Split(text) : IsPort(s.port)}}

\* A path is its prefix, "/tcp:", "/udp:" or something else, and the text after it.
Protocol(path) == CASE path.prefix = "/tcp:" -> {"Tcp"}
                    [] path.prefix = "/udp:" -> {"Udp"}
                    [] OTHER -> {}

parse_target(path) ==
    {[protocol |-> p, host |-> t.host, port |-> t.port] :
        p \in Protocol(path), t \in parse_host_port(path.text)}

\* The normal form: what is dialled, and what the anonymous targets are compared with.
addr(target) == target.host \o <<":", Decimal(target.port)>>

-----------------------------------------------------------------------------
(* What the parser is meant to compute *)

\* A host that is written without brackets, or with.
IsHost(text) ==
    \/ /\ text # << >> /\ text[1] # "["
       /\ \A i \in 1 .. Len(text) : text[i] # ":"
    \/ /\ Len(text) > 2 /\ text[1] = "[" /\ text[Len(text)] = "]"
       /\ \A i \in 1 .. Len(text) - 1 : ~(text[i] = "]" /\ text[i + 1] = ":")

\* The ways to read a text as a host, a colon and a port.
Readings(text) ==
    {[host |-> SubSeq(text, 1, i - 1), port |-> NumberOf[text[i + 1]]] :
        i \in {i \in 1 .. Len(text) - 1 : /\ text[i] = ":"
                                          /\ IsHost(SubSeq(text, 1, i - 1))
                                          /\ IsPort(SubSeq(text, i + 1, Len(text)))}}
=============================================================================
