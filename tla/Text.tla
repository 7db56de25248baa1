--------------------------------- MODULE Text ---------------------------------
(* Strings that may be blank, and what strings.TrimSpace makes of them: a    *)
(* name or a setting is "", Blank or something else.                         *)

Blank   == " "
Trim(s) == IF s = Blank THEN "" ELSE s

==============================================================================
