---------------------------- MODULE PppProtocol ----------------------------
(***************************************************************************)
(* The two static functions of PointToPointNetDevice that translate        *)
(* between EtherType numbers, which the upper layers use, and PPP protocol *)
(* numbers, which travel in the PPP header.                                *)
(*                                                                         *)
(* README.md tells the user to configure the build with `-d optimized',    *)
(* which compiles NS_ASSERT out: a number outside the table is therefore   *)
(* translated to 0 instead of stopping the program.                        *)
(***************************************************************************)
EXTENDS Naturals

IPv4Ether == \h0800
IPv6Ether == \h86DD
IPv4Ppp   == \h0021
IPv6Ppp   == \h0057
LZS       == \h4021     \* the same number in both spaces

ProtocolNumbers == 0 .. \hFFFF        \* uint16_t

EtherToPpp(proto) ==
  CASE proto = IPv4Ether -> IPv4Ppp
    [] proto = LZS       -> LZS
    [] proto = IPv6Ether -> IPv6Ppp
    [] OTHER             -> 0

PppToEther(proto) ==
  CASE proto = IPv4Ppp -> IPv4Ether
    [] proto = LZS     -> LZS
    [] proto = IPv6Ppp -> IPv6Ether
    [] OTHER           -> 0

\* The EtherTypes for which EtherToPpp does not reach its failing assertion.
DefinedEther == {IPv4Ether, LZS, IPv6Ether}
=============================================================================
