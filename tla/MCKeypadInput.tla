---------------------------- MODULE MCKeypadInput ----------------------------
(* A user with a volume key and the power key, and a client that registers    *)
(* the power key's tap.                                                       *)
EXTENDS KeypadInput

DeviceInputs == {EfiKeyData(key) : key \in Device!KeyDatas \cup Device!Combos}
PowerTap == {EfiKeyData("CHAR_CARRIAGE_RETURN")}
=============================================================================
