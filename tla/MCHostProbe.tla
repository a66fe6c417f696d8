---------------------------- MODULE MCHostProbe ----------------------------
(* Small instances of HostProbe: hosts of every kind, one record each. *)
EXTENDS HostProbe

Small == [blocks |-> 3, avail |-> 1, size |-> 2]
Huge == [blocks |-> 9, avail |-> 1, size |-> 2]
Base ==
    [release |-> {}, env |-> None, file |-> None, configured |-> None,
     entries |-> {}, roots |-> <<>>,
     volumes |-> [a |-> Small, b |-> Huge]]
On(d, v) == [dir |-> d, dev |-> v]

LinuxHosts ==
    {[Base EXCEPT !.roots = r] :
       r \in {<<>>, <<On(TRUE, "a")>>, <<On(TRUE, "a"), On(TRUE, "a")>>,
              <<On(TRUE, "a"), On(TRUE, "b")>>, <<On(FALSE, "a")>>, <<On(TRUE, "b")>>}}
Wsl == [Base EXCEPT !.release = {"microsoft", "wsl2"}]
Entry(n, m, s) == [name |-> n, modified |-> m, socket |-> s, interop |-> TRUE]
BadWsl ==
    {[Wsl EXCEPT !.env = "invalid", !.file = "valid", !.configured = "socket"],
     [Wsl EXCEPT !.env = "valid", !.configured = "other", !.entries = {Entry(1, 1, FALSE)}],
     [Wsl EXCEPT !.release = {"microsoft"}]}
GoodWsl ==
    {[Wsl EXCEPT !.file = "valid", !.configured = "other",
                 !.entries = {Entry(1, 2, TRUE), Entry(2, 1, TRUE), Entry(3, 2, TRUE)}]}
MCHosts == LinuxHosts \cup BadWsl \cup GoodWsl
MCReports ==
    {[schema |-> 2, total |-> 4, free |-> f, platform |-> "wsl2",
      identity |-> "whole", printable |-> TRUE] : f \in {3, 5}}
MCOffsets == {-1, 0, 2}
============================================================================
