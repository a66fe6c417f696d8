----------------------------- MODULE MCMonitor -----------------------------
(* A small instance of Monitor for TLC. *)
EXTENDS Monitor, TLC

Config(on, every) == [enabled |-> on, interval |-> every]
TwoSettings == {Config(TRUE, 3), Config(FALSE, 2)}

\* On a volume of 40 bytes the shares are 2, 4, 8 and 12: three bytes free are
\* critical, ten are below the target and twenty are enough.
OneDisk == [emergency |-> 3, critical |-> 6, pressure |-> 9, target |-> 14]

\* The longest cooldown is as long as the shortest interval there is with cleanup
\* enabled.
Cooldowns == ("healthy" :> 3) @@ ("pressure" :> 3) @@ ("critical" :> 2)
             @@ ("emergency" :> 1)
============================================================================
