------------------------------- MODULE MCBoot -------------------------------
(* A small machine: directories of 8 entries, of which the kernel has the   *)
(* last 4, pages of 2 units, screens of 3 columns and 2 rows.               *)
EXTENDS Boot

MCImages == {[text |-> 3, rodata |-> 2, data |-> 6], [text |-> 4, rodata |-> 1, data |-> 5]}

MCFreeRuns == {16, 21}

MCCmdlines == {Absent, {}, {"serial"}, {"tty"}, {"serial", "tty"}, {"log-error", "log-debug"}, {"log-error"}}

MCTexts == {<<"u">>, <<"u", CR>>, <<BS, "u">>}
=============================================================================
