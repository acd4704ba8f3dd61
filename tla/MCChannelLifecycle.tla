-------------------------- MODULE MCChannelLifecycle --------------------------
(* An instance of ChannelLifecycle for TLC: alice opens a channel to bob.  *)
EXTENDS ChannelLifecycle, TLC

CONSTANTS alice, bob

AliceAndBob == {alice, bob}
=============================================================================
