----------------------------- MODULE CanApiClaims -----------------------------
(***************************************************************************)
(* A sentence of src/Sources/CANAPI/can_api.h that the wrapper does not    *)
(* keep: the one property of a run, which shows a shortest execution that  *)
(* breaks it.                                                              *)
(***************************************************************************)
EXTENDS CanApi

(* can_api.h:373: 'read one message from the message queue of the CAN      *)
(* interface, if any message was received'.                                *)
ReadReturnsReceived ==
  [][ret'.op = "can_read" /\ ret'.rc = "NOERROR" => ret'.real]_vars
===============================================================================
