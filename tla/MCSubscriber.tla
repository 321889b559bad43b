---------------------------- MODULE MCSubscriber ----------------------------
(* A subscriber of two categories, as in sub-profile-*.ini, on small       *)
(* numbers of messages.                                                    *)
EXTENDS Subscriber
=============================================================================
