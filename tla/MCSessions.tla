----------------------------- MODULE MCSessions -----------------------------
(* A few requests of two clients: one a browser, one that sends both its    *)
(* cookies wherever it goes.                                                *)
EXTENDS Sessions, TLC

CONSTANTS r1, r2, r3, browser, script, pw1, pw2

MCClients == {browser, script}
MCBrowsers == {browser}
MCPasswords == {pw1, pw2}
MCSymmetry == Permutations({r1, r2, r3}) \cup Permutations({pw1, pw2})
=============================================================================
