-------------------------- MODULE MCAppStreamStatus --------------------------
(* Instance of AppStreamStatus for TLC: streams that are found by packages and
   as modules; they start, near their end and retire on different days of the
   week considered.  golang, found by a package, and rust, a module, are
   rolling streams: once a catalogue response has given them the end date of
   their OS, they go through what a stream with dates of its own does. *)
EXTENDS AppStreamStatus, TLC

CONSTANTS k1, k2, k3,                       \* packages
          postgresql, nodejs, golang, rust, \* streams
          run1, run2                        \* notification runs

MCPackages      == {k1, k2, k3}
MCPackageStream ==
    [k \in Packages |-> IF k = k3 /\ golang \in Streams THEN golang ELSE postgresql]
MCModuleStreams == {nodejs, rust} \cap Streams
MCStartDay      == [s \in Streams |-> IF s \in {nodejs, rust} THEN 1 ELSE 0]
MCEndDay        ==
    [s \in Streams |-> CASE s = nodejs -> 3 [] s = postgresql -> 2 [] OTHER -> 1]
=============================================================================
