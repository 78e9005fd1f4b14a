---------------------------- MODULE MCSensorHub ----------------------------
(* SensorHub with two sensors beside the OLED and three verify passes. *)
EXTENDS SensorHub

MCSensors == {"ccs", "lis"}
MCLevels == {50, 51}
MCLinkTexts == {"wait"}
=============================================================================
