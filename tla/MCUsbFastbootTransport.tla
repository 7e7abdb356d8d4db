----------------------- MODULE MCUsbFastbootTransport -----------------------
EXTENDS UsbFastbootTransport
=============================================================================
