------------------------------- MODULE Gateway -------------------------------
(***************************************************************************)
(* The gateway token and the sockets opened with it: internal/gateway,     *)
(* internal/server/auth.go and the registry of live connections in         *)
(* internal/server/ws.go.                                                  *)
(*                                                                         *)
(* A request is authorized by the middleware, upgraded, and only then put  *)
(* in the registry a rotation closes; between the three steps the token    *)
(* may rotate.  Broadcasts are written by one goroutine per message and    *)
(* connection, in no order.                                                *)
(***************************************************************************)
EXTENDS Naturals

CONSTANTS
  Clients,       \* dashboards and apps
  MaxRotations,  \* bound on token generations
  MaxEvents,     \* bound on broadcasts
  MaxStarts      \* bound on restarts of the daemon

VARIABLES
  file,     \* the token file: the generation it holds
  token,    \* Keeper.token
  rotate,   \* handleTokenRotate: "idle", "stored", "swapped"
  conn,     \* Clients -> [at, token]: how far its handshake is, the token it showed
  mail,     \* Clients -> events whose write to it is still running
  event,    \* events broadcast so far
  view,     \* Clients -> the last event it was written
  starts

gateVars == <<file, token, rotate, conn, mail, event, view, starts>>

Gone == [at |-> "gone", token |-> 0]
GatewayTypeOK ==
  /\ file \in 1..MaxRotations + 1 /\ token \in 1..MaxRotations + 1
  /\ rotate \in {"idle", "stored", "swapped"}
  /\ conn \in [Clients -> [at: {"gone", "asked", "upgraded", "live", "closing"}, token: 0..MaxRotations + 1]]
  /\ mail \in [Clients -> SUBSET (1..MaxEvents)] /\ event \in 0..MaxEvents
  /\ view \in [Clients -> 0..MaxEvents] /\ starts \in 0..MaxStarts

\* LoadOrCreate: the first start writes a token.
GatewayInit ==
  /\ file = 1 /\ token = 1 /\ rotate = "idle" /\ starts = 0 /\ event = 0
  /\ conn = [c \in Clients |-> Gone] /\ mail = [c \in Clients |-> {}] /\ view = [c \in Clients |-> 0]

\* The registry: what closeAllWS and broadcastWS see.
Registered == {c \in Clients : conn[c].at \in {"live", "closing"}}
Authorized(t) == t = token

\* withAuth, with whatever token the client kept.
Ask(c, t) ==
  /\ conn[c].at = "gone" /\ Authorized(t) /\ conn' = [conn EXCEPT ![c] = [at |-> "asked", token |-> t]]
  /\ UNCHANGED <<file, token, rotate, mail, event, view, starts>>
Upgrade(c) ==
  /\ conn[c].at = "asked" /\ conn' = [conn EXCEPT ![c].at = "upgraded"]
  /\ UNCHANGED <<file, token, rotate, mail, event, view, starts>>
\* Mutation of Admitted: registerWS relies on the middleware.
AdmittedOnce(c) == conn[c].token > 0
\* registerWS checks the handshake's token again, under wsMu.
Admitted(c) == Authorized(conn[c].token)
Register(c) ==
  /\ conn[c].at = "upgraded"
  /\ conn' = [conn EXCEPT ![c] = IF Admitted(c) THEN [@ EXCEPT !.at = "live"] ELSE Gone]
  /\ view' = [view EXCEPT ![c] = event]  \* hello, then the state as it is
  /\ UNCHANGED <<file, token, rotate, mail, event, starts>>
\* The peer goes away, or the close handshake ends: unregisterWS.
Leave(c) ==
  /\ conn[c].at # "gone" /\ conn' = [conn EXCEPT ![c] = Gone] /\ mail' = [mail EXCEPT ![c] = {}]
  /\ UNCHANGED <<file, token, rotate, event, view, starts>>

\* Rotate: the file first, then the token every request is compared with; the
\* handler closes the sockets after that.
StoreToken ==
  /\ rotate = "idle" /\ file <= MaxRotations /\ file' = file + 1 /\ rotate' = "stored"
  /\ UNCHANGED <<token, conn, mail, event, view, starts>>
SwapToken ==
  /\ rotate = "stored" /\ token' = file /\ rotate' = "swapped"
  /\ UNCHANGED <<file, conn, mail, event, view, starts>>
CloseAll ==
  /\ rotate = "swapped" /\ rotate' = "idle"
  /\ conn' = [c \in Clients |-> IF c \in Registered THEN [conn[c] EXCEPT !.at = "closing"] ELSE conn[c]]
  /\ UNCHANGED <<file, token, mail, event, view, starts>>

\* broadcastWS; each write has five seconds of its own.
Broadcast ==
  /\ event < MaxEvents /\ event' = event + 1
  /\ mail' = [c \in Clients |-> IF c \in Registered THEN mail[c] \cup {event + 1} ELSE mail[c]]
  /\ UNCHANGED <<file, token, rotate, conn, view, starts>>
Write(c, e) ==
  /\ e \in mail[c] /\ mail' = [mail EXCEPT ![c] = @ \ {e}] /\ view' = [view EXCEPT ![c] = e]
  /\ UNCHANGED <<file, token, rotate, conn, event, starts>>
Drop(c, e) ==
  /\ e \in mail[c] /\ mail' = [mail EXCEPT ![c] = @ \ {e}]
  /\ UNCHANGED <<file, token, rotate, conn, event, view, starts>>

\* The daemon dies and starts again: the file is what is left.
Restart ==
  /\ starts < MaxStarts /\ starts' = starts + 1 /\ token' = file /\ rotate' = "idle"
  /\ conn' = [c \in Clients |-> Gone] /\ mail' = [c \in Clients |-> {}]
  /\ UNCHANGED <<file, event, view>>

GatewayNext ==
  \/ \E c \in Clients : \/ \E t \in 1..MaxRotations + 1 : Ask(c, t)
                        \/ Upgrade(c) \/ Register(c) \/ Leave(c)
                        \/ \E e \in mail[c] : Write(c, e) \/ Drop(c, e)
  \/ StoreToken \/ SwapToken \/ CloseAll \/ Broadcast \/ Restart
GatewaySpec == GatewayInit /\ [][GatewayNext]_gateVars

---------------------------------------------------------------------------
\* A rotation that has answered leaves no socket of an earlier token open, not
\* even one whose upgrade was under way (server/ws.go:42-45, auth.go:115-117).
OldSocketsClose ==
  rotate = "idle" => \A c \in Clients : conn[c].at = "live" => conn[c].token = token

=============================================================================
