------------------------------ MODULE MCUsbEp0 ------------------------------
\* Sizes of the sections of the configuration for the run: as in usb2uart.c the
\* first is a byte longer than a packet, so packets straddle the sections; the
\* others are short enough for one packet to reach over all three.
EXTENDS UsbEp0

MCSections == <<4, 1, 1>>
=============================================================================
