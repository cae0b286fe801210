------------------------------ MODULE StreamMC ------------------------------
(* Small instances of Stream for TLC; the values of the constants are in   *)
(* stream.cfg.  Either two callers meet in the handshake, or a single one  *)
(* gets on to messages.                                                    *)
EXTENDS Stream, TLC

CONSTANTS c1, c2

Limits(d, a) == "dial" :> d @@ "accept" :> a
Meet(k, w1, w2) ==
  [kind |-> k, maxrx |-> Limits(0, 0), who |-> (c1 :> w1 @@ c2 :> w2),
   talks |-> {}, hears |-> {}, frail |-> {}]
Talk(k, side, d, a) ==
  [kind |-> k, maxrx |-> Limits(d, a), who |-> (c1 :> "good" @@ c2 :> "nobody"),
   talks |-> {<<c1, side>>}, hears |-> {c1} \X {"dial", "accept"}, frail |-> {c1}]

MeetOrTalk ==
       {Meet(k, "good", w) : k \in {"tcp", "tls", "ipc", "npipe"},
                             w \in {"good", "misfit", "stranger"}}
  \cup {Talk("tcp", "dial", 0, n) : n \in {0, 1}}
  \cup {Talk("tls", "accept", n, 0) : n \in {0, 1}}
  \cup {Talk("ipc", "accept", n, 0) : n \in {0, 1}}
  \cup {Talk("npipe", "dial", 0, 1)}

=============================================================================
