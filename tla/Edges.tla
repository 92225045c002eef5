------------------------------- MODULE Edges -------------------------------
(***************************************************************************)
(* The parts at which the system meets others, each on its own: a radio    *)
(* behind its gateway, the devices of a port of a bridge, the machine that *)
(* the server runs on, and the companions and lights that are told.        *)
(***************************************************************************)
EXTENDS Common

CONSTANTS
  Talkers, Sessions,                                      \* of RadioGateway
  Voices,                                                 \* of BridgeMedia
  Nics, PublicAddress, Profiles, Environments, Imports,   \* of ServerConfig
  Accounts, Numbers                                       \* users and productions of Tally

VARIABLES talk, delivered, inbox, sess, gw, ptt, rx, phase, races   \* of RadioGateway

R == INSTANCE RadioGateway WITH Efforts <- Bounds.radio
B == INSTANCE BridgeMedia WITH Attempts <- Bounds.media
C == INSTANCE ServerConfig WITH Address <- PublicAddress, Bundles <- Imports, Attempts <- Bounds.config
T == INSTANCE Tally WITH Users <- Accounts, Productions <- Numbers, Attempts <- Bounds.tally
=============================================================================
