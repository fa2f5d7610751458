----------------------------- MODULE Addressing -----------------------------
(***************************************************************************)
(* AgentUri and Uri together: the names that a search finds, and the       *)
(* addresses of the search system and of the listeners.                    *)
(***************************************************************************)

CONSTANTS Chars, Pieces, MaxPieces, Keys, tcp, Protos, Hosts, Ports, Paths, Optional

VARIABLES stage, key, agent_uri, name, dest, receiver, target, written, uri

Names == INSTANCE AgentUri
Addr == INSTANCE Uri

\* The uses of an agent's name fit together: what is written is read and, for keys
\* without a slash, what is found can be sent to and a message names its receiver
\* (parseAgent, split, toString).
NamesAgree == Names!NamesAgree

\* A valid Uri has the protocol and the path of its string, whichever of the groups of
\* parse()'s regular expression are left out; its host if there is a protocol, and its
\* port if that fits its field.
AsWritten == Addr!AsWritten
=============================================================================
