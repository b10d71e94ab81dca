-------------------------- MODULE MCWidgetDelivery --------------------------
(***************************************************************************)
(* WidgetDelivery with histories long enough, or too short, for the chat.  *)
(***************************************************************************)
EXTENDS WidgetDelivery, TLC
=============================================================================
