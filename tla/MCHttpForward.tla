-------------------------- MODULE MCHttpForward --------------------------
EXTENDS HttpForward

Req(lengths, codings, body, expect, close) ==
    [lengths |-> lengths, codings |-> codings, body |-> body,
     expect |-> expect, close |-> close]

MCRequests ==
    { Req(<<>>, <<>>, 0, FALSE, TRUE), Req(<<>>, <<>>, 0, FALSE, FALSE),
      Req(<<1>>, <<>>, 1, FALSE, FALSE), Req(<<2, 2>>, <<>>, 2, FALSE, FALSE),
      Req(<<1>>, <<>>, 1, TRUE, FALSE),
      Req(<<>>, <<"chunked">>, 1, FALSE, FALSE),
      Req(<<>>, <<"chunked">>, 2, FALSE, FALSE),
      Req(<<1>>, <<"chunked">>, 1, FALSE, FALSE) }

Resp(info, last, length, coding, body, close, persist) ==
    [info |-> info, last |-> last, length |-> length, coding |-> coding,
     body |-> body, close |-> close, persist |-> persist]

MCResponses ==
    { Resp(0, "final", 1, "none", 1, FALSE, TRUE),
      Resp(1, "final", 0, "none", 0, FALSE, TRUE),
      Resp(2, "final", 0, "none", 0, TRUE, TRUE),
      Resp(0, "final", 1, "chunked", 1, FALSE, TRUE),
      Resp(0, "final", -1, "coded", 1, FALSE, TRUE),
      Resp(0, "final", -1, "none", 1, FALSE, TRUE),
      Resp(0, "upgrade", -1, "none", 0, FALSE, TRUE),
      Resp(0, "bad", -1, "none", 0, FALSE, FALSE) }
=============================================================================
