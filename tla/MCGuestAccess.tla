--------------------------- MODULE MCGuestAccess ---------------------------
(* Two calls into the guest of a session that publishes two services. *)
EXTENDS GuestAccess

Arg(parts, proto) == [parts |-> parts, proto |-> proto]

\* Three launches, one without --publish, and four that are turned down.
MCRequests ==
    { <<>>,
      <<Arg(<<80>>, "udp"), Arg(<<3000, 80>>, "tcp")>>,
      <<Arg(<<3000, 80>>, "tcp"), Arg(<<2000, 80>>, "")>>,
      <<Arg(<<80>>, ""), Arg(<<80, 81>>, "tcp")>>,
      <<Arg(<<0>>, "")>>, <<Arg(<<80, 65536>>, "")>>, <<Arg(<<80>>, "sctp")>> }

MCServices == [guest: {80}, proto: Protocols]

\* A host port of each of the two services.
MCRivals == {[host |-> 3000, proto |-> "tcp"], [host |-> 80, proto |-> "udp"]}

CallSymmetry == Permutations(Calls)
=============================================================================
