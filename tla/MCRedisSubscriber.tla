------------------------- MODULE MCRedisSubscriber -------------------------
(* A subscriber of two categories; events arrive from before the           *)
(* registration until after the deletion.                                  *)
EXTENDS RedisSubscriber
=============================================================================
