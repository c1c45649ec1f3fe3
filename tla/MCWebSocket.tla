---------------------------- MODULE MCWebSocket ----------------------------
(* WebSocket on a small instance: every kind of frame, two or three in a row. *)
EXTENDS WebSocket, TLC

F(op, fin, head, key, len) ==
    [op |-> op, fin |-> fin, head |-> head, key |-> key, len |-> len]

MCAnswers == {F(op, TRUE, 2, 0, 0) : op \in AnswerOps}

MCFrames == {F("text", TRUE, 2, 0, 0), F("text", TRUE, 2, 0, 1), F("text", TRUE, 3, 0, 2),
             F("text", FALSE, 2, 0, 1), F("cont", FALSE, 2, 0, 1), F("cont", TRUE, 2, 0, 1),
             F("ping", TRUE, 2, 0, 1), F("pong", TRUE, 2, 0, 0), F("pong", TRUE, 2, 0, 1),
             F("pong", TRUE, 2, 1, 0), F("close", TRUE, 2, 0, 0), F("bad", TRUE, 2, 0, 0)}
=============================================================================
