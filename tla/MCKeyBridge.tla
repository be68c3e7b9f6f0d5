----------------------------- MODULE MCKeyBridge -----------------------------
(* Values for model-checking KeyBridge: either keyboard has an Enter. *)
EXTENDS KeyBridge

TwoKeys == {"ctrl", "enter"}
OneKey == {"enter"}
=============================================================================
