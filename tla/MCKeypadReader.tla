--------------------------- MODULE MCKeypadReader ---------------------------
(* Three presses of two keys, codes of two keys and room for one key and a  *)
(* half in the channel: a code can be full, be cut short by its timer, and  *)
(* be typed on while another is handed over, and the channel can be full.   *)
EXTENDS KeypadReader

\* The key 5, and a frame that is no key.
MCPresses == {<<0, 1, 0, 1>>, <<1, 1, 0, 1>>}
=============================================================================
