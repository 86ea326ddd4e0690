---------------------------- MODULE MCNetworkRevert ----------------------------
(* Instances of NetworkRevert for TLC. *)
EXTENDS NetworkRevert

\* Nothing goes wrong; what a confirmation withstands; what the status withstands.
Gradations ==
  {{}, {"overlap", "crash", "no_address", "file_error"}, Mishaps \ {"file_error"}}
RaceOnly == {{"race"}}
================================================================================
