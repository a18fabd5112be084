----------------------------- MODULE MCLiveView -----------------------------
(* Receivers and chains of services for model checking LiveView.           *)
EXTENDS LiveView

AllReceivers == [protocol : {"array10", "bsread"}, type : {"pull", "sub"}]

\* A camera with each service, and a detector whose images may be unfit.
SomeChains ==
  {[source |-> "camera", via |-> "image", type |-> "batch"],
   [source |-> "camera", via |-> "blosc2", type |-> "forward"],
   [source |-> "detector", via |-> "filter", type |-> "periodic"],
   [source |-> "detector", via |-> "no_filter", type |-> "periodic"],
   [source |-> "detector", via |-> "blosc2", type |-> "forward"],
   [source |-> "detector", via |-> "h5bitshuffle-lz4", type |-> "forward"]}

FirstTwo == {1, 2}

TwoOfThree == <<2, 3>>
=============================================================================
