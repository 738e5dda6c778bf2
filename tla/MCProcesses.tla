----------------------------- MODULE MCProcesses -----------------------------
(***************************************************************************)
(* Definitions that overlap, by command and by command line; a duplicate   *)
(* that makes the first one mandatory; two definitions of one backend; and *)
(* those that are refused.                                                 *)
(***************************************************************************)
EXTENDS Processes

MCProcesses == {[command |-> "java", cmdline |-> "java a"],
                [command |-> "java", cmdline |-> "java b"],
                [command |-> "ntpd", cmdline |-> "ntpd"]}
MCServices == {"s"}

Define(name, mandatory, command, match, service, backend) ==
    [name |-> name, mandatory |-> mandatory, duplicates |-> TRUE, command |-> command,
     match |-> match, valid |-> TRUE, service |-> service, backend |-> backend]

MCConfigurations == {
    <<Define("any", FALSE, "java", {}, "none", TRUE),
      Define("b", FALSE, "", {"java b"}, "s", FALSE),
      Define("ntpd", FALSE, "", {}, "none", FALSE),
      Define("b", TRUE, "java", {}, "none", FALSE)>>,
    <<Define("any", TRUE, "java", {}, "s", TRUE),
      Define("ntpd", FALSE, "", {}, "s", TRUE)>>,
    <<Define("any", FALSE, "java", {}, "none", FALSE),
      [Define("any", FALSE, "java", {}, "none", FALSE) EXCEPT !.duplicates = FALSE]>>,
    <<[Define("any", FALSE, "java", {}, "none", FALSE) EXCEPT !.valid = FALSE]>> }

=============================================================================
