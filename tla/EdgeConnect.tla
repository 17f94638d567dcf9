------------------------------ MODULE EdgeConnect ------------------------------
(***************************************************************************)
(* The edge-connect pallet (pallets/edge-connect/src/lib.rs) as the chain   *)
(* executes it: one connection, a bounded list of commands and a bounded    *)
(* list of responses, neither of which is ever emptied.  A call that        *)
(* returns an error changes nothing and is a disabled action.               *)
(*                                                                         *)
(* Text is abstract: a response is a member of Texts, and LongTexts are the *)
(* ones longer than MaxStringLength.                                       *)
(***************************************************************************)
EXTENDS Naturals, Sequences, FiniteSets

CONSTANTS
    Users,              \* accounts that sign calls
    None,               \* no connection; also maybe_who of an unsigned response
    ConnectionIds,      \* the u32 a caller names
    Texts,              \* response texts
    LongTexts,          \* those that do not fit a BoundedVec<u8, MaxStringLength>
    CommandTexts,       \* command texts, "ping" among them
    MaxCommand,
    MaxResponses,
    UnsignedInterval,
    MaxBlock,           \* bound: the last block that takes users' calls
    MaxSubmissions      \* bound on the responses submitted

ASSUME EdgeAssumption ==
    /\ None \notin Users /\ None \notin ConnectionIds
    /\ LongTexts \subseteq Texts
    /\ MaxCommand \in Nat /\ MaxResponses \in Nat
    /\ UnsignedInterval \in Nat
    /\ MaxBlock \in Nat \ {0} /\ MaxSubmissions \in Nat

VARIABLES
    Connection,         \* None when Connection::exists() is false
    Commands,           \* sequence of <<who, command>>
    Responses,          \* sequence of <<maybe_who, response>>
    NextUnsignedAt,
    block,              \* the block under construction
    event,              \* the last event deposited in this block
    submitted           \* history: <<maybe_who, response>> of every call that returned Ok

edgeVars == <<Connection, Commands, Responses, NextUnsignedAt, block, event, submitted>>

NoEvent == [type |-> "None"]

Event ==
    {NoEvent}
    \cup [type : {"ConnectionCreated", "ConnectionRemoved"}, connection : ConnectionIds, who : Users]
    \cup [type : {"CommandSent"}, command : {"ping"}, who : Users]
    \cup [type : {"NewResponse"}, response : Texts \ LongTexts, maybe_who : Users \cup {None}]

-------------------------------------------------------------------------------
Init ==
    /\ Connection = None
    /\ Commands = <<>>
    /\ Responses = <<>>
    /\ NextUnsignedAt = 0
    /\ block = 1
    /\ event = NoEvent
    /\ submitted = <<>>

CreateConnection(who, connection) ==
    /\ block <= MaxBlock
    /\ Connection = None
    /\ Connection' = connection
    /\ event' = [type |-> "ConnectionCreated", connection |-> connection, who |-> who]
    /\ UNCHANGED <<Commands, Responses, NextUnsignedAt, block, submitted>>

\* The connection removed is the one there is; the argument only reaches the event.
RemoveConnection(who, connection) ==
    /\ block <= MaxBlock
    /\ Connection # None
    /\ Connection' = None
    /\ event' = [type |-> "ConnectionRemoved", connection |-> connection, who |-> who]
    /\ UNCHANGED <<Commands, Responses, NextUnsignedAt, block, submitted>>

\* Mutant: any text is taken for a command.
AnyCommand(command) == TRUE

IsCommand(command) == command = "ping"

SendCommand(who, command) ==
    /\ block <= MaxBlock
    /\ Connection # None
    /\ IsCommand(command)
    /\ Len(Commands) < MaxCommand
    /\ Commands' = Append(Commands, <<who, command>>)
    /\ event' = [type |-> "CommandSent", command |-> command, who |-> who]
    /\ UNCHANGED <<Connection, Responses, NextUnsignedAt, block, submitted>>

\* Mutant: the list full one entry early.
AddResponseShort(maybe_who, response) ==
    /\ submitted' = Append(submitted, <<maybe_who, response>>)
    /\ IF response \notin LongTexts /\ Len(Responses) + 1 < MaxResponses
       THEN /\ Responses' = Append(Responses, <<maybe_who, response>>)
            /\ event' = [type |-> "NewResponse", response |-> response, maybe_who |-> maybe_who]
       ELSE UNCHANGED <<Responses, event>>

\* Mutant: the event is deposited whether or not the list took the response.
AddResponseLoud(maybe_who, response) ==
    /\ submitted' = Append(submitted, <<maybe_who, response>>)
    /\ Responses' = IF response \notin LongTexts /\ Len(Responses) < MaxResponses
                    THEN Append(Responses, <<maybe_who, response>>)
                    ELSE Responses
    /\ event' = [type |-> "NewResponse", response |-> response, maybe_who |-> maybe_who]

\* A response that is too long, or finds the list full, is ignored; the call
\* that brought it succeeds all the same.
AddResponse(maybe_who, response) ==
    /\ submitted' = Append(submitted, <<maybe_who, response>>)
    /\ IF response \notin LongTexts /\ Len(Responses) < MaxResponses
       THEN /\ Responses' = Append(Responses, <<maybe_who, response>>)
            /\ event' = [type |-> "NewResponse", response |-> response, maybe_who |-> maybe_who]
       ELSE UNCHANGED <<Responses, event>>

SubmitResponse(who, response) ==
    /\ Len(submitted) < MaxSubmissions
    /\ Connection # None
    /\ AddResponse(who, response)
    /\ UNCHANGED <<Connection, Commands, NextUnsignedAt, block>>

\* Mutant: the cooldown counted from the previous value.
CooldownFromNext == NextUnsignedAt + UnsignedInterval

Cooldown == block + UnsignedInterval

\* Nobody asks for a connection, nor whether the cooldown is over.
SubmitResponseUnsigned(response) ==
    /\ Len(submitted) < MaxSubmissions
    /\ AddResponse(None, response)
    /\ NextUnsignedAt' = Cooldown
    /\ UNCHANGED <<Connection, Commands, block>>

\* A payload is the response and whether its signature verifies, which
\* validate_unsigned asks before the call is dispatched.
SubmitResponseUnsignedWithSignedPayload(payload) ==
    /\ payload.verifies
    /\ Len(submitted) < MaxSubmissions
    /\ AddResponse(None, payload.response)
    /\ NextUnsignedAt' = Cooldown
    /\ UNCHANGED <<Connection, Commands, block>>

NewBlock ==
    /\ block <= MaxBlock
    /\ block' = block + 1
    /\ event' = NoEvent
    /\ UNCHANGED <<Connection, Commands, Responses, NextUnsignedAt, submitted>>

Next ==
    \/ \E who \in Users, c \in ConnectionIds : CreateConnection(who, c) \/ RemoveConnection(who, c)
    \/ \E who \in Users, command \in CommandTexts : SendCommand(who, command)
    \/ \E who \in Users, response \in Texts : SubmitResponse(who, response)
    \/ \E response \in Texts : SubmitResponseUnsigned(response)
    \/ \E payload \in [response : Texts, verifies : BOOLEAN] :
          SubmitResponseUnsignedWithSignedPayload(payload)
    \/ NewBlock

Spec == Init /\ [][Next]_edgeVars

-------------------------------------------------------------------------------
(* Properties *)

\* Every storage item has its declared type and keeps to its BoundedVec bound;
\* the only command ever stored or announced is "ping".
TypeOK ==
    /\ Connection \in ConnectionIds \cup {None}
    /\ Commands \in Seq(Users \X {"ping"}) /\ Len(Commands) <= MaxCommand
    /\ Responses \in Seq((Users \cup {None}) \X (Texts \ LongTexts))
    /\ Len(Responses) <= MaxResponses
    /\ NextUnsignedAt \in Nat
    /\ block \in 1 .. MaxBlock + 1
    /\ event \in Event
    /\ submitted \in Seq((Users \cup {None}) \X Texts)

\* Fits(entry): the text of the entry is short enough for the list.
Fits(entry) == entry[2] \notin LongTexts

\* Which of the first k entries of s fit.
Fitting(s, k) == {p \in 1 .. k : Fits(s[p])}

\* The list of responses is exactly the first MaxResponses of the responses
\* that were accepted and fit, in the order the calls were applied: the n-th that
\* fits is the n-th of the list, and the list ends with the last of them or when it
\* is full.  add_response never reorders, duplicates, truncates or replaces one,
\* whatever the mix of signed and unsigned calls.  The storage item is documented as
\* "recently submitted responses" and the call as one that "appends": once the list is
\* full neither is so, and it is the oldest responses that stay, as try_push makes it.
FirstFittingKept ==
    LET fitting == Cardinality(Fitting(submitted, Len(submitted)))
    IN  /\ Len(Responses) = IF fitting < MaxResponses THEN fitting ELSE MaxResponses
        /\ \A p \in Fitting(submitted, Len(submitted)) :
              LET n == Cardinality(Fitting(submitted, p))
              IN  n <= MaxResponses => Responses[n] = submitted[p]

\* A NewResponse event tells what the list now ends with.
EventMatchesList ==
    event.type = "NewResponse" =>
        Responses # <<>> /\ Responses[Len(Responses)] = <<event.maybe_who, event.response>>

\* An unsigned response always pushes the cooldown UnsignedInterval past its own
\* block, and blocks only advance: NextUnsignedAt never goes back, and is never
\* more than one interval ahead of the chain.
CooldownMonotone ==
    [][ /\ NextUnsignedAt' >= NextUnsignedAt
        /\ NextUnsignedAt' <= block + UnsignedInterval ]_edgeVars
===============================================================================
