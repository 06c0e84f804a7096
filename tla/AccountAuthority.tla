-------------------------- MODULE AccountAuthority --------------------------
(***************************************************************************)
(* What the account watch promises to those who judge new risk by it: two  *)
(* flags, _stream_connected and the reconciled flag of the latest          *)
(* snapshot.  The first is raised only when a REST read went through on an *)
(* open user stream, the second only by a REST read, and a disconnection   *)
(* clears both at once.  AccountWatch implements this, LiveRuntime builds  *)
(* on it.                                                                  *)
(***************************************************************************)

VARIABLES
    connected,   \* _stream_connected
    sound,       \* the latest snapshot is reconciled, of quality OK
    stream       \* run_user_stream: off, down, repairing or reading

authorityVars == <<connected, sound, stream>>

AuthorityInit == connected = FALSE /\ sound = FALSE /\ stream = "off"

(* mark_stream_disconnected, by whomever; s is where the stream goes on. *)
Disconnected(s) == connected' = FALSE /\ sound' = FALSE /\ stream' = s

(* reconcile_rest went through: a baseline, or a conflict. *)
Read ==
    /\ sound' \in BOOLEAN
    /\ UNCHANGED <<connected, stream>>

(* run_user_stream opens a socket, or loses it, or refuses a message. *)
Opened == stream = "down" /\ Disconnected("repair")
Lost == stream \in {"down", "repair", "reading"} /\ Disconnected("down")
Refused == stream = "reading" /\ \E s \in {"repair", "reading"} : Disconnected(s)

(* A message that was seen before, while the account is not reconciled. *)
Reread == stream = "reading" /\ stream' = "repair" /\ UNCHANGED <<connected, sound>>

(* The read that repairs the stream went through. *)
Rejoined ==
    /\ stream = "repair"
    /\ stream' = "reading"
    /\ connected' = TRUE
    /\ UNCHANGED sound

AuthorityNext == Read \/ Opened \/ Lost \/ Refused \/ Reread \/ Rejoined

(* The runtime takes the stream up and down with it. *)
Switched ==
    \/ stream = "off" /\ stream' = "down" /\ UNCHANGED <<connected, sound>>
    \/ Disconnected(stream)
    \/ Disconnected("off")

AuthoritySpec == AuthorityInit /\ [][AuthorityNext \/ Switched]_authorityVars

=============================================================================
