---------------------------- MODULE MCHostNames ----------------------------
EXTENDS HostNames
(* "a" and "A" differ in case only, "x/" and "x:" look the same on the host. *)
MCSafe(s)  == IF s \in {"x/", "x:"} THEN "x_" ELSE s
MCFold(s)  == IF s = "A" THEN "a" ELSE s
Plain(s)   == [stem |-> s, ext |-> <<>>]
MCLength(s) == 2
MCNames(d) == IF d = "vfs" THEN {Plain("a"), Plain("A")}
              ELSE {Plain("a"), Plain("x/"), Plain("x:"), [stem |-> "a", ext |-> <<ImageSuffix>>]}
MCPatterns(d) == MCNames(d) \cup IF d = "fat" THEN {Star} ELSE {}
MCSettings(d) == IF d = "fat" THEN {<<1, TRUE>>, <<4, TRUE>>} ELSE {<<3, TRUE>>}
Empty  == [s \in Slots |-> None]
File(host, head) == [host |-> host, head |-> head, cluster |-> 1]
Foreign == File([stem |-> "b", ext |-> <<X00Suffix("PRG", 0)>>], Plain("A"))
Headless == File([stem |-> "a", ext |-> <<X00Suffix("SEQ", 0)>>], None)
MCCards(d) ==
  {[p \in Partitions |-> IF p = 2 /\ d = "fat" THEN [Empty EXCEPT ![1] = Foreign] ELSE Empty]} \cup
  IF d = "fat" THEN {[p \in Partitions |-> [Empty EXCEPT ![1] = Headless]]} ELSE {}
=============================================================================
