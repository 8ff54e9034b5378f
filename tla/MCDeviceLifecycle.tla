------------------------- MODULE MCDeviceLifecycle --------------------------
(* The four queues of a virtio sound device, two streams, three starts of  *)
(* the device.                                                             *)
EXTENDS DeviceLifecycle
=============================================================================
