----------------------------- MODULE WebServer -----------------------------
(***************************************************************************)
(* The connections of webserver.c: the callbacks lwIP makes for each of     *)
(* them, the state block ws_accept allocates and ws_close_connection frees, *)
(* and the answer that goes out in a header and chunks of the body, a chunk *)
(* for every acknowledgement.  A callback is one step.                      *)
(*                                                                         *)
(* A header and a chunk are a unit each.  lwIP is external: it refuses a    *)
(* write when it has no memory, acknowledges what was written bit by bit,   *)
(* calls the error callback with ERR_ABRT when the connection is gone       *)
(* already, and keeps a closed connection for a while.                      *)
(***************************************************************************)
EXTENDS Integers, Sequences, FiniteSets

CONSTANTS
    Conns,  \* places for a connection in lwIP
    Heap,   \* state blocks that fit in the memory
    Bodies, \* for each path, the chunks of the answer to it
    MaxBody \* bound: the chunks of the longest answer

ASSUME WebServerAssumption ==
    /\ IsFiniteSet(Conns) /\ Heap \in Nat /\ MaxBody \in Nat \ {0}
    /\ \A path \in DOMAIN Bodies : Bodies[path] \in 1 .. MaxBody

VARIABLES
    pcb,        \* of each connection: "none", "open", or "lingers" when closed
    state,      \* its state block
    registered, \* the callbacks lwIP has for it
    written,    \* what tcp_write has taken, in order
    acked,      \* how many of these units are acknowledged
    lost,       \* history: writes lwIP has refused
    leaked,     \* state blocks that nothing points at
    fault,      \* history: a callback used a state block it does not have
    ap,         \* the access point is up
    listening   \* server_pcb is open

webVars == <<pcb, state, registered, written, acked, lost, leaked, fault, ap, listening>>
connVars == <<pcb, state, registered, written, acked, lost, leaked, fault>>

Header == 0
Callbacks == {"recv", "sent", "err", "poll"}
NoState == [held |-> FALSE]
(* calloc *)
NewState == [held |-> TRUE, handled |-> FALSE, longpoll |-> FALSE, header_len |-> 0,
             result_len |-> 0, file_offset |-> 0, sent_len |-> 0]

WebTypeOK ==
    /\ pcb \in [Conns -> {"none", "open", "lingers"}]
    /\ registered \in [Conns -> SUBSET Callbacks]
    /\ \A c \in Conns : state[c].held =>
          /\ state[c].handled \in BOOLEAN /\ state[c].longpoll \in BOOLEAN
          /\ state[c].header_len \in 0 .. 1 /\ state[c].result_len \in 0 .. MaxBody
          /\ state[c].file_offset \in 0 .. state[c].result_len
          /\ state[c].sent_len \in 0 .. 1 + MaxBody
    /\ \A c \in Conns : written[c] \in Seq(0 .. MaxBody) /\ acked[c] \in 0 .. Len(written[c])
    /\ lost \in [Conns -> SUBSET (0 .. MaxBody)]
    /\ leaked \in 0 .. Heap /\ fault \in BOOLEAN
    /\ ap \in BOOLEAN /\ listening \in BOOLEAN

WebInit ==
    /\ pcb = [c \in Conns |-> "none"]
    /\ state = [c \in Conns |-> NoState]
    /\ registered = [c \in Conns |-> {}]
    /\ written = [c \in Conns |-> <<>>] /\ acked = [c \in Conns |-> 0]
    /\ lost = [c \in Conns |-> {}]
    /\ leaked = 0 /\ fault = FALSE
    /\ ap = FALSE /\ listening = FALSE

Held == Cardinality({c \in Conns : state[c].held}) + leaked

-----------------------------------------------------------------------------
(* ws_accept; when calloc fails lwIP drops the connection.                   *)
Accept(c) ==
    /\ ap /\ listening /\ pcb[c] = "none" /\ Held < Heap
    /\ pcb' = [pcb EXCEPT ![c] = "open"]
    /\ state' = [state EXCEPT ![c] = NewState]
    /\ registered' = [registered EXCEPT ![c] = Callbacks]
    /\ UNCHANGED <<written, acked, lost, leaked, fault, ap, listening>>

(* ws_close_connection: the poll callback is the one it leaves.  Forgotten   *)
(* empties what is known of the stream.                                      *)
Forgotten(c) ==
    /\ written' = [written EXCEPT ![c] = <<>>] /\ acked' = [acked EXCEPT ![c] = 0]
    /\ lost' = [lost EXCEPT ![c] = {}]

(* A slip: the sent callback is left registered.                            *)
Closing_KeepsSent(c) ==
    /\ pcb' = [pcb EXCEPT ![c] = "lingers"]
    /\ registered' = [registered EXCEPT ![c] = {"poll", "sent"}]
    /\ state' = [state EXCEPT ![c] = NoState]
    /\ UNCHANGED <<leaked, fault, ap, listening>>

Closing(c) ==
    /\ pcb' = [pcb EXCEPT ![c] = "lingers"]
    /\ registered' = [registered EXCEPT ![c] = {"poll"}]
    /\ state' = [state EXCEPT ![c] = NoState]
    /\ UNCHANGED <<leaked, fault, ap, listening>>

(* ws_send_chunk; ok is what tcp_write returns.                             *)
NextChunk(s) == s.file_offset + 1

Chunked(s, ok) == IF ok THEN [s EXCEPT !.file_offset = @ + 1] ELSE s

(* sendJson and handle_index: the header and the first chunk.  Neither      *)
(* result is looked at.                                                     *)
Answering(c, length, headerOk, chunkOk) ==
    LET s == [state[c] EXCEPT !.handled = TRUE, !.longpoll = FALSE,
                              !.header_len = 1, !.result_len = length]
    IN  /\ state' = [state EXCEPT ![c] = Chunked(s, chunkOk)]
        /\ written' = [written EXCEPT ![c] =
              @ \o (IF headerOk THEN <<Header>> ELSE <<>>)
                \o (IF chunkOk THEN <<NextChunk(s)>> ELSE <<>>)]
        /\ lost' = [lost EXCEPT ![c] =
              (IF headerOk THEN {} ELSE {Header}) \cup (IF chunkOk THEN {} ELSE {NextChunk(s)})]
        /\ UNCHANGED <<pcb, registered, acked, leaked, fault, ap, listening>>

Calls(c, callback) == pcb[c] # "none" /\ callback \in registered[c]

-----------------------------------------------------------------------------
(* ws_recv: the first segment is the request, later ones are dropped.       *)

Unhandled(c) == ap /\ Calls(c, "recv") /\ state[c].held /\ ~state[c].handled

Request(c, path) ==
    /\ Unhandled(c)
    /\ \E headerOk, chunkOk \in BOOLEAN : Answering(c, Bodies[path], headerOk, chunkOk)

(* No method and path in the first line.                                    *)
BadRequest(c) == Unhandled(c) /\ Closing(c) /\ Forgotten(c)

(* handle_console with nothing new: the answer waits.                       *)
LongPoll(c) ==
    /\ Unhandled(c)
    /\ state' = [state EXCEPT ![c].handled = TRUE, ![c].longpoll = TRUE]
    /\ UNCHANGED <<pcb, registered, written, acked, lost, leaked, fault, ap, listening>>

(* The client closes: p is NULL.                                            *)
ClientCloses(c) ==
    /\ ap /\ Calls(c, "recv")
    /\ IF state[c].held THEN Closing(c) /\ Forgotten(c)
       ELSE fault' = TRUE
            /\ UNCHANGED <<pcb, state, registered, written, acked, lost, leaked, ap, listening>>

(* ws_sent for n units.                                                     *)
AllSent_NoHeader(s) == s.sent_len >= s.result_len

(* A slip: more is waited for than was sent.                                *)
AllSent_More(s) == s.sent_len > s.header_len + s.result_len

AllSent(s) == s.sent_len >= s.header_len + s.result_len

Sent(c, n) ==
    /\ ap /\ Calls(c, "sent") /\ n <= Len(written[c]) - acked[c]
    /\ acked' = [acked EXCEPT ![c] = @ + n]
    /\ IF ~state[c].held
       THEN fault' = TRUE
            /\ UNCHANGED <<pcb, state, registered, written, lost, leaked, ap, listening>>
       ELSE LET s == [state[c] EXCEPT !.sent_len = @ + n]
            IN  IF s.file_offset < s.result_len
                THEN \/ /\ state' = [state EXCEPT ![c] = Chunked(s, TRUE)]
                        /\ written' = [written EXCEPT ![c] = Append(@, NextChunk(s))]
                        /\ UNCHANGED <<pcb, registered, lost, leaked, fault, ap, listening>>
                     \/ Closing(c) /\ UNCHANGED <<written, lost>>
                ELSE IF AllSent(s)
                THEN Closing(c) /\ UNCHANGED <<written, lost>>
                ELSE /\ state' = [state EXCEPT ![c] = s]
                     /\ UNCHANGED <<pcb, registered, written, lost, leaked, fault, ap, listening>>

(* ws_poll; a closed connection keeps the callback, without a state.        *)
Poll(c) ==
    /\ Calls(c, "poll") /\ state[c].held /\ state[c].longpoll
    /\ \E headerOk, chunkOk \in BOOLEAN : Answering(c, 1, headerOk, chunkOk)

-----------------------------------------------------------------------------
(* ws_err.  A reset connection is closed and freed.  Of one that lwIP has   *)
(* given up (ERR_ABRT) nothing is done, and its state block stays.          *)

Reset(c) ==
    /\ ap /\ Calls(c, "err") /\ state[c].held
    /\ pcb' = [pcb EXCEPT ![c] = "none"]
    /\ registered' = [registered EXCEPT ![c] = {}]
    /\ state' = [state EXCEPT ![c] = NoState] /\ Forgotten(c)
    /\ UNCHANGED <<leaked, fault, ap, listening>>

Abort(c) ==
    /\ Calls(c, "err") /\ state[c].held
    /\ pcb' = [pcb EXCEPT ![c] = "none"]
    /\ registered' = [registered EXCEPT ![c] = {}]
    /\ state' = [state EXCEPT ![c] = NoState] /\ leaked' = leaked + 1
    /\ Forgotten(c) /\ UNCHANGED <<fault, ap, listening>>

(* lwIP forgets a closed connection.                                        *)
Expire(c) ==
    /\ pcb[c] = "lingers"
    /\ pcb' = [pcb EXCEPT ![c] = "none"]
    /\ registered' = [registered EXCEPT ![c] = {}]
    /\ Forgotten(c) /\ UNCHANGED <<state, leaked, fault, ap, listening>>

ConnNext(c) ==
    \/ Accept(c) \/ BadRequest(c) \/ LongPoll(c) \/ ClientCloses(c)
    \/ \E path \in DOMAIN Bodies : Request(c, path)
    \/ \E n \in 1 .. MaxBody + 1 : Sent(c, n)
    \/ Poll(c) \/ Reset(c) \/ Abort(c) \/ Expire(c)

-----------------------------------------------------------------------------
(* webserver.c:39, 223: a state block belongs to an open connection, all     *)
(* others are free again - except those of connections lwIP has given up,    *)
(* which are lost for ever - and no callback is left that would use one.     *)
BlocksOwned ==
    /\ \A c \in Conns : state[c].held <=> pcb[c] = "open"
    /\ Held <= Heap
    /\ ~fault

ClosesAnswered(c) ==
    /\ pcb[c] = "open" /\ pcb'[c] = "lingers" /\ acked'[c] > acked[c]
    /\ state[c].file_offset = state[c].result_len

(* webserver.c:211: the server closes a connection it has answered only when *)
(* header and body have arrived in full - or because the memory for the next *)
(* chunk was refused.                                                       *)
ClosedWhenArrived ==
    [][ \A c \in Conns :
          ClosesAnswered(c)
            => /\ written[c] = [i \in 1 .. state[c].result_len + 1 |-> i - 1]
               /\ acked'[c] = state[c].result_len + 1 ]_webVars

(* webserver.c:193, 231: a request is answered to its end, also after a long *)
(* poll and although a chunk was refused at first, while the access point is *)
(* up.  Not so when the header was refused: the rest is counted against the  *)
(* length of both, and the connection stays until the client closes it.      *)
RequestsEnd ==
    \A c \in Conns :
        state[c].held /\ state[c].handled /\ Header \notin lost[c]
            ~> (pcb[c] # "open" \/ ~ap \/ Header \in lost[c])
=============================================================================
