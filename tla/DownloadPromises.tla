-------------------------- MODULE DownloadPromises --------------------------
(***************************************************************************)
(* What the downloads of `install` and `update` promise, over the record   *)
(* that the module Downloads keeps of a behaviour and nothing else: it is  *)
(* stated here for the module that performs them and for the one that      *)
(* proves it.                                                              *)
(***************************************************************************)
EXTENDS Naturals

VARIABLE past  \* what the behaviour downloads; its commands and faults; the downloads of
               \* the Core that failed in a row; whether one was killed over a whole part
               \* file; whether one installed another release than it was asked for

\* "so a corrupt file never lingers to poison the next resume attempt" (installer.rs:726):
\* once servers answer well, and nothing is killed or runs at the same time, one
\* command at most fails for what earlier ones left in the part file.
Heals == past.streak <= 1

\* A command that reports success installed the version it was asked for, although the
\* part file does not say which version it is the beginning of.  It takes a kill between
\* the last byte and the removal of the part, or two downloads at once, to do otherwise.
InstalledIsAsked == past.wrong => past.left
=============================================================================
