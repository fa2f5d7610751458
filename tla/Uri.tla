-------------------------------- MODULE Uri --------------------------------
(***************************************************************************)
(* Uri::parse (cpp-utils/src/cpp/lib/Uri.cpp), which reads the addresses   *)
(* of the listeners and of the search system: the loop that hands the      *)
(* groups of a regular expression to the fields, its switch with cases     *)
(* that go on to the next.  A group is [kind, value], or NoPart, the empty *)
(* string, if it was left out; only a protocol ends in a colon and only a  *)
(* port begins with one.                                                   *)
(***************************************************************************)
EXTENDS Naturals

CONSTANTS
    Protos, Hosts, Ports, Paths,   \* what may be written
    Optional                       \* the kinds that may be left out: "proto", "port", "path"

\* The values of a uint16_t
PortLimit == 65536

\* Optional are the groups that the regular expression marks so; a port is what
\* std::stoi reads without throwing.  Assumed by MCLibrary.
UriAssumption == Optional \subseteq {"proto", "port", "path"} /\ Ports \subseteq Nat

VARIABLES written, uri

vars == <<written, uri>>

NoPart == [kind |-> "none", value |-> 0]

Part(kind, values) ==
    [kind : {kind}, value : values] \cup (IF kind \in Optional THEN {NoPart} ELSE {})

NewUri == [proto |-> NoPart, host |-> NoPart, port |-> 0, path |-> NoPart, valid |-> FALSE]

PortOf(part) == part.value % PortLimit

\* Variant: the case PORT does not go on to PATH.
Turn_Break(loop, part) ==
    CASE loop.expects = "PROTO" -> [loop EXCEPT !.expects = "HOST", !.uri.proto = part]
      [] loop.expects = "HOST" -> [loop EXCEPT !.expects = "PORT", !.uri.host = part]
      [] loop.expects = "PORT" /\ part.kind = "port" ->
            [loop EXCEPT !.expects = "PATH", !.uri.port = PortOf(part)]
      [] loop.expects = "PORT" /\ part.kind # "port" -> loop
      [] OTHER -> [loop EXCEPT !.uri.path = part]

\* A turn of the loop: without a protocol PROTO goes on to HOST, and without a
\* port PORT goes on to PATH, where a port is still expected.
Turn(loop, part) ==
    CASE loop.expects = "PROTO" /\ part.kind = "proto" ->
            [loop EXCEPT !.expects = "HOST", !.uri.proto = part]
      [] loop.expects = "HOST" \/ (loop.expects = "PROTO" /\ part.kind # "proto") ->
            [loop EXCEPT !.expects = "PORT", !.uri.host = part]
      [] loop.expects = "PORT" /\ part.kind = "port" ->
            [loop EXCEPT !.expects = "PATH", !.uri.port = PortOf(part)]
      [] OTHER -> [loop EXCEPT !.uri.path = part]

Init ==
    /\ written \in Part("proto", Protos) \X Part("host", Hosts) \X Part("port", Ports) \X Part("path", Paths)
    /\ uri = NewUri

\* The loop over the groups of a match.
Turns ==
    LET turns[i \in 0 .. 4] ==
          IF i = 0 THEN [expects |-> "PROTO", uri |-> NewUri] ELSE Turn(turns[i - 1], written[i])
    IN  turns

parse ==
    /\ ~uri.valid
    /\ uri' = [Turns[4].uri EXCEPT !.valid = TRUE]
    /\ UNCHANGED written

Next == parse

Spec == Init /\ [][Next]_vars

-----------------------------------------------------------------------------
\* A valid Uri has the protocol and the path of its string, whichever of the groups of
\* parse()'s regular expression are left out; its host if there is a protocol, and its
\* port, or 0 if none is written, if that fits a uint16_t.
AsWritten ==
    uri.valid =>
        /\ uri.proto = written[1] /\ uri.path = written[4]
        /\ written[1] # NoPart => uri.host = written[2]
        /\ written[3].value < PortLimit => uri.port = written[3].value

-----------------------------------------------------------------------------
(* What one would expect from the code's own words, and what it does not do *)
(* (the README, Known deviations).                                          *)

\* A valid Uri has the host of its string, which the regular expression requires.
HostAsWritten == uri.valid => uri.host = written[2]
=============================================================================
