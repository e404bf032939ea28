------------------------ MODULE MCInstallerExecution ------------------------
\* Plans for three machines: a Secure Boot laptop, a UEFI machine without it
\* that has to keep another system, and a BIOS machine.
EXTENDS InstallerExecution

Ubuntu == [ubuntu |-> TRUE, language |-> FALSE, ufw |-> TRUE, snapshots |-> TRUE,
           built |-> {}, registered |-> {"wl"}, extraByDefault |-> TRUE]
Debian == [ubuntu |-> FALSE, language |-> TRUE, ufw |-> FALSE, snapshots |-> FALSE,
           built |-> {}, registered |-> {}, extraByDefault |-> FALSE]

EraseSecure ==
  [mode |-> "erase", fw |-> "uefi", sb |-> TRUE, fs |-> "btrfs", swap |-> TRUE, reuse |-> FALSE,
   shrink |-> FALSE, frees |-> FALSE, input |-> TRUE, sudo |-> TRUE, ssh |-> FALSE, codecs |-> TRUE, updates |-> TRUE,
   drivers |-> TRUE, windowsElsewhere |-> TRUE, image |-> Ubuntu]
Keep ==
  [mode |-> "guided", fw |-> "uefi", sb |-> FALSE, fs |-> "ext4", swap |-> TRUE, reuse |-> TRUE,
   shrink |-> FALSE, frees |-> FALSE, input |-> FALSE, sudo |-> FALSE, ssh |-> TRUE, codecs |-> FALSE, updates |-> FALSE,
   drivers |-> FALSE, windowsElsewhere |-> FALSE, image |-> Debian]
Shrink == [Keep EXCEPT !.mode = "manual", !.shrink = TRUE, !.updates = TRUE]
Replace == [Keep EXCEPT !.mode = "manual", !.frees = TRUE]
EraseKept == [Keep EXCEPT !.mode = "erase", !.reuse = FALSE, !.fs = "btrfs", !.drivers = TRUE]
EraseBios == [EraseKept EXCEPT !.fw = "bios", !.swap = FALSE, !.image = Ubuntu]

AllPlans == {EraseSecure, Keep, Shrink, Replace, EraseKept, EraseBios}
=============================================================================
