------------------------------- MODULE MCDevd -------------------------------
(* Two devices; each may come and go.                                      *)
EXTENDS Devd

CONSTANTS d1, d2

MCDevices == {d1, d2}

MCDatagrams == {Event(action, d) : action \in {"add", "remove"}, d \in MCDevices}
=============================================================================
