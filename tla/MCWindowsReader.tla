-------------------------- MODULE MCWindowsReader --------------------------
(***************************************************************************)
(* Three scans from a scanner with a letter, a digit and both shift keys.  *)
(***************************************************************************)
EXTENDS WindowsReader

Down(k) == <<k, "press">>
Up(k)   == <<k, "release">>

OneShift == <<Down("lshift"), Down("1"), Up("lshift"), Down("enter")>>
CapsLocked == <<Down("a"), Up("a"), Down("caps"), Down("a"), Down("enter")>>
TwoShifts == <<Down("lshift"), Down("rshift"), Up("rshift"), Down("a"), Down("enter")>>
ThreeScans == <<OneShift, CapsLocked, TwoShifts>>

\* A line that is its prefix only is dropped.
One == <<[key |-> "1", form |-> "base"]>>
Nothing == <<>>
=============================================================================
