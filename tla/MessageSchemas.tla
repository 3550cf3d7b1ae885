----------------------------- MODULE MessageSchemas -----------------------------
(***************************************************************************)
(* The wire layout of every message type TalosOS ships, as it is written   *)
(* down four times by hand: the C++ Write and Read overloads beside each   *)
(* struct in include/talosos/msgs, the Python readers of messages.py and   *)
(* the Python writers of runtime.py.  A row lists the members of one type  *)
(* in the order in which the function visits them; the layouts that module *)
(* Cdr works on are these rows with nested messages expanded.              *)
(***************************************************************************)
EXTENDS Integers, Sequences, SequencesExt

\* Members ns of one type t, in this order; a std::vector of t; a std::array.
Of(t, ns) == [i \in DOMAIN ns |-> [name |-> ns[i], type |-> t, n |-> 1, dyn |-> FALSE]]
ListOf(t, ns) == [i \in DOMAIN ns |-> [name |-> ns[i], type |-> t, n |-> 1, dyn |-> TRUE]]
ArrayOf(n, t, ns) == [i \in DOMAIN ns |-> [name |-> ns[i], type |-> t, n |-> n, dyn |-> FALSE]]
header == Of("Header", <<"header">>)

-----------------------------------------------------------------------------
(***************************************************************************)
(* C++.  The Read overload of every type visits its members in the order   *)
(* of the Write overload beside it, so one row stands for both.            *)
(***************************************************************************)

CppTime ==
  [Time |-> Of("i32", <<"sec">>) \o Of("u32", <<"nanosec">>),
   Duration |-> Of("i32", <<"sec", "nanosec">>)]

\* The wrappers around one primitive, and the MultiArray family around a vector of it.
CppScalars ==
  [String |-> "string", Bool |-> "bool", Byte |-> "u8", Char |-> "i8",
   Int8 |-> "i8", Int16 |-> "i16", Int32 |-> "i32", Int64 |-> "i64",
   UInt8 |-> "u8", UInt16 |-> "u16", UInt32 |-> "u32", UInt64 |-> "u64",
   Float32 |-> "f32", Float64 |-> "f64"]
CppMultiArrays ==
  [ByteMultiArray |-> "u8", Int8MultiArray |-> "i8", Int16MultiArray |-> "i16",
   Int32MultiArray |-> "i32", Int64MultiArray |-> "i64", UInt8MultiArray |-> "u8",
   UInt16MultiArray |-> "u16", UInt32MultiArray |-> "u32", UInt64MultiArray |-> "u64",
   Float32MultiArray |-> "f32", Float64MultiArray |-> "f64"]

\* Empty carries one filler byte.
CppStd ==
  [Header |-> Of("Time", <<"stamp">>) \o Of("string", <<"frame_id">>),
   ColorRGBA |-> Of("f32", <<"r", "g", "b", "a">>),
   MultiArrayDimension |-> Of("string", <<"label">>) \o Of("u32", <<"size", "stride">>),
   MultiArrayLayout |-> ListOf("MultiArrayDimension", <<"dim">>) \o Of("u32", <<"data_offset">>)]
    @@ [Empty |-> Of("u8", <<"pad">>)]
    @@ [t \in DOMAIN CppScalars |-> Of(CppScalars[t], <<"data">>)]
    @@ [t \in DOMAIN CppMultiArrays |-> Of("MultiArrayLayout", <<"layout">>)
                                           \o ListOf(CppMultiArrays[t], <<"data">>)]

CppGeometry ==
  [Vector3 |-> Of("f64", <<"x", "y", "z">>),
   Point |-> Of("f64", <<"x", "y", "z">>),
   Point32 |-> Of("f32", <<"x", "y", "z">>),
   Quaternion |-> Of("f64", <<"x", "y", "z", "w">>),
   Pose2D |-> Of("f64", <<"x", "y", "theta">>),
   Pose |-> Of("Point", <<"position">>) \o Of("Quaternion", <<"orientation">>),
   Twist |-> Of("Vector3", <<"linear", "angular">>),
   Accel |-> Of("Vector3", <<"linear", "angular">>),
   Wrench |-> Of("Vector3", <<"force", "torque">>),
   Inertia |-> Of("f64", <<"m">>) \o Of("Vector3", <<"com">>)
       \o Of("f64", <<"ixx", "ixy", "ixz", "iyy", "iyz", "izz">>),
   Polygon |-> ListOf("Point32", <<"points">>),
   Transform |-> Of("Vector3", <<"translation">>) \o Of("Quaternion", <<"rotation">>),
   PointStamped |-> header \o Of("Point", <<"point">>),
   Vector3Stamped |-> header \o Of("Vector3", <<"vector">>),
   QuaternionStamped |-> header \o Of("Quaternion", <<"quaternion">>),
   PoseStamped |-> header \o Of("Pose", <<"pose">>),
   TwistStamped |-> header \o Of("Twist", <<"twist">>),
   AccelStamped |-> header \o Of("Accel", <<"accel">>),
   WrenchStamped |-> header \o Of("Wrench", <<"wrench">>),
   InertiaStamped |-> header \o Of("Inertia", <<"inertia">>),
   PolygonStamped |-> header \o Of("Polygon", <<"polygon">>)]

CppGeometryMore ==
  [TransformStamped |-> header \o Of("string", <<"child_frame_id">>)
       \o Of("Transform", <<"transform">>),
   PoseWithCovariance |-> Of("Pose", <<"pose">>) \o ArrayOf(36, "f64", <<"covariance">>),
   PoseWithCovarianceStamped |-> header \o Of("PoseWithCovariance", <<"pose">>),
   TwistWithCovariance |-> Of("Twist", <<"twist">>) \o ArrayOf(36, "f64", <<"covariance">>),
   TwistWithCovarianceStamped |-> header \o Of("TwistWithCovariance", <<"twist">>),
   AccelWithCovariance |-> Of("Accel", <<"accel">>) \o ArrayOf(36, "f64", <<"covariance">>),
   AccelWithCovarianceStamped |-> header \o Of("AccelWithCovariance", <<"accel">>)]

CppSensor ==
  [RegionOfInterest |-> Of("u32", <<"x_offset", "y_offset", "height", "width">>)
       \o Of("bool", <<"do_rectify">>),
   Imu |-> header \o Of("Quaternion", <<"orientation">>)
       \o ArrayOf(9, "f64", <<"orientation_covariance">>)
       \o Of("Vector3", <<"angular_velocity">>)
       \o ArrayOf(9, "f64", <<"angular_velocity_covariance">>)
       \o Of("Vector3", <<"linear_acceleration">>)
       \o ArrayOf(9, "f64", <<"linear_acceleration_covariance">>),
   Image |-> header \o Of("u32", <<"height", "width">>) \o Of("string", <<"encoding">>)
       \o Of("u8", <<"is_bigendian">>) \o Of("u32", <<"step">>) \o ListOf("u8", <<"data">>),
   CompressedImage |-> header \o Of("string", <<"format">>) \o ListOf("u8", <<"data">>),
   CameraInfo |-> header \o Of("u32", <<"height", "width">>)
       \o Of("string", <<"distortion_model">>) \o ListOf("f64", <<"D">>)
       \o ArrayOf(9, "f64", <<"K", "R">>) \o ArrayOf(12, "f64", <<"P">>)
       \o Of("u32", <<"binning_x", "binning_y">>) \o Of("RegionOfInterest", <<"roi">>)]

CppScans ==
  [LaserScan |-> header
       \o Of("f32", <<"angle_min", "angle_max", "angle_increment", "time_increment",
                      "scan_time", "range_min", "range_max">>)
       \o ListOf("f32", <<"ranges", "intensities">>),
   PointField |-> Of("string", <<"name">>) \o Of("u32", <<"offset">>) \o Of("u8", <<"datatype">>)
       \o Of("u32", <<"count">>),
   PointCloud2 |-> header \o Of("u32", <<"height", "width">>)
       \o ListOf("PointField", <<"fields">>) \o Of("bool", <<"is_bigendian">>)
       \o Of("u32", <<"point_step", "row_step">>) \o ListOf("u8", <<"data">>)
       \o Of("bool", <<"is_dense">>),
   JointState |-> header \o ListOf("string", <<"name">>)
       \o ListOf("f64", <<"position", "velocity", "effort">>),
   NavSatStatus |-> Of("i8", <<"status">>) \o Of("u16", <<"service">>)]

CppReadings ==
  [NavSatFix |-> header \o Of("NavSatStatus", <<"status">>)
       \o Of("f64", <<"latitude", "longitude", "altitude">>)
       \o ArrayOf(9, "f64", <<"position_covariance">>)
       \o Of("u8", <<"position_covariance_type">>),
   Range |-> header \o Of("u8", <<"radiation_type">>)
       \o Of("f32", <<"field_of_view", "min_range", "max_range", "range">>),
   Temperature |-> header \o Of("f64", <<"temperature", "variance">>),
   RelativeHumidity |-> header \o Of("f64", <<"relative_humidity", "variance">>),
   FluidPressure |-> header \o Of("f64", <<"fluid_pressure", "variance">>),
   Illuminance |-> header \o Of("f64", <<"illuminance", "variance">>),
   MagneticField |-> header \o Of("Vector3", <<"magnetic_field">>)
       \o ArrayOf(9, "f64", <<"magnetic_field_covariance">>),
   TimeReference |-> header \o Of("Time", <<"time_ref">>) \o Of("string", <<"source">>)]

CppDevices ==
  [BatteryState |-> header
       \o Of("f32", <<"voltage", "temperature", "current", "charge",
                      "capacity", "design_capacity", "percentage">>)
       \o Of("u8", <<"power_supply_status", "power_supply_health", "power_supply_technology">>)
       \o Of("bool", <<"present">>) \o ListOf("f32", <<"cell_voltage", "cell_temperature">>)
       \o Of("string", <<"location", "serial_number">>),
   Joy |-> header \o ListOf("f32", <<"axes">>) \o ListOf("i32", <<"buttons">>),
   ChannelFloat32 |-> Of("string", <<"name">>) \o ListOf("f32", <<"values">>),
   PointCloud |-> header \o ListOf("Point32", <<"points">>)
       \o ListOf("ChannelFloat32", <<"channels">>)]

CppNav ==
  [MapMetaData |-> Of("Time", <<"map_load_time">>) \o Of("f32", <<"resolution">>)
       \o Of("u32", <<"width", "height">>) \o Of("Pose", <<"origin">>),
   OccupancyGrid |-> header \o Of("MapMetaData", <<"info">>) \o ListOf("i8", <<"data">>),
   GridCells |-> header \o Of("f32", <<"cell_width", "cell_height">>)
       \o ListOf("Point", <<"cells">>),
   Path |-> header \o ListOf("PoseStamped", <<"poses">>),
   Odometry |-> header \o Of("string", <<"child_frame_id">>)
       \o Of("PoseWithCovariance", <<"pose">>) \o Of("TwistWithCovariance", <<"twist">>)]

CppOctomap ==
  [Octomap |-> header \o Of("bool", <<"binary">>) \o Of("string", <<"id">>)
       \o Of("f64", <<"resolution">>) \o ListOf("i8", <<"data">>),
   OctomapWithPose |-> header \o Of("Pose", <<"origin">>) \o Of("Octomap", <<"octomap">>)]

CppTf ==
  [TFMessage |-> ListOf("TransformStamped", <<"transforms">>)]

CppMarkers ==
  [Marker |-> header \o Of("string", <<"ns">>) \o Of("i32", <<"id", "type", "action">>)
       \o Of("Pose", <<"pose">>) \o Of("Vector3", <<"scale">>) \o Of("ColorRGBA", <<"color">>)
       \o Of("Duration", <<"lifetime">>) \o Of("bool", <<"frame_locked">>)
       \o ListOf("Point", <<"points">>) \o ListOf("ColorRGBA", <<"colors">>)
       \o Of("string", <<"text", "mesh_resource">>)
       \o Of("bool", <<"mesh_use_embedded_materials">>),
   MarkerArray |-> ListOf("Marker", <<"markers">>),
   ImageMarker |-> header \o Of("string", <<"ns">>) \o Of("i32", <<"id", "type", "action">>)
       \o Of("Point", <<"position">>) \o Of("f32", <<"scale">>)
       \o Of("ColorRGBA", <<"outline_color">>) \o Of("u8", <<"filled">>)
       \o Of("ColorRGBA", <<"fill_color">>) \o Of("Duration", <<"lifetime">>)
       \o ListOf("Point", <<"points">>) \o ListOf("ColorRGBA", <<"outline_colors">>)]

CppMenu ==
  [MenuEntry |-> Of("u32", <<"id", "parent_id">>) \o Of("string", <<"title", "command">>)
       \o Of("u8", <<"command_type">>)]

CppPcl ==
  [PointIndices |-> header \o ListOf("i32", <<"indices">>),
   ModelCoefficients |-> header \o ListOf("f32", <<"values">>),
   Vertices |-> ListOf("u32", <<"vertices">>),
   PolygonMesh |-> header \o Of("PointCloud2", <<"cloud">>) \o ListOf("Vertices", <<"polygons">>)]

Cpp == CppTime @@ CppStd @@ CppGeometry @@ CppGeometryMore @@ CppSensor @@ CppScans
         @@ CppReadings @@ CppDevices @@ CppNav @@ CppOctomap @@ CppTf @@ CppMarkers
         @@ CppMenu @@ CppPcl

-----------------------------------------------------------------------------
(***************************************************************************)
(* Python.  The readers build the message from what they read: a row names *)
(* the attribute each value ends in.                                       *)
(***************************************************************************)
PyScalarReaders ==
  [String |-> "string", Bool |-> "bool",
   Int8 |-> "i8", Int16 |-> "i16", Int32 |-> "i32", Int64 |-> "i64",
   UInt8 |-> "u8", UInt16 |-> "u16", UInt32 |-> "u32", UInt64 |-> "u64",
   Float32 |-> "f32", Float64 |-> "f64"]

PyReadsGeometry ==
  [Time |-> Of("i32", <<"sec">>) \o Of("u32", <<"nanosec">>),
   Duration |-> Of("i32", <<"sec", "nanosec">>),
   Header |-> Of("Time", <<"stamp">>) \o Of("string", <<"frame_id">>),
   ColorRGBA |-> Of("f32", <<"r", "g", "b", "a">>),
   Vector3 |-> Of("f64", <<"x", "y", "z">>),
   Point |-> Of("f64", <<"x", "y", "z">>),
   Quaternion |-> Of("f64", <<"x", "y", "z", "w">>),
   Pose |-> Of("Point", <<"position">>) \o Of("Quaternion", <<"orientation">>),
   PoseStamped |-> header \o Of("Pose", <<"pose">>),
   Twist |-> Of("Vector3", <<"linear", "angular">>),
   TwistStamped |-> header \o Of("Twist", <<"twist">>),
   Transform |-> Of("Vector3", <<"translation">>) \o Of("Quaternion", <<"rotation">>)]
    @@ [t \in DOMAIN PyScalarReaders |-> Of(PyScalarReaders[t], <<"data">>)]

\* sequence_u8 takes count bytes in one slice: what the loop over u8 takes.
PyReadsSensor ==
  [TransformStamped |-> header \o Of("string", <<"child_frame_id">>)
       \o Of("Transform", <<"transform">>),
   Imu |-> header \o Of("Quaternion", <<"orientation">>)
       \o ArrayOf(9, "f64", <<"orientation_covariance">>)
       \o Of("Vector3", <<"angular_velocity">>)
       \o ArrayOf(9, "f64", <<"angular_velocity_covariance">>)
       \o Of("Vector3", <<"linear_acceleration">>)
       \o ArrayOf(9, "f64", <<"linear_acceleration_covariance">>),
   Image |-> header \o Of("u32", <<"height", "width">>) \o Of("string", <<"encoding">>)
       \o Of("u8", <<"is_bigendian">>) \o Of("u32", <<"step">>) \o ListOf("u8", <<"data">>),
   CompressedImage |-> header \o Of("string", <<"format">>) \o ListOf("u8", <<"data">>),
   LaserScan |-> header
       \o Of("f32", <<"angle_min", "angle_max", "angle_increment", "time_increment",
                      "scan_time", "range_min", "range_max">>)
       \o ListOf("f32", <<"ranges", "intensities">>),
   PointField |-> Of("string", <<"name">>) \o Of("u32", <<"offset">>)
       \o Of("u8", <<"datatype">>) \o Of("u32", <<"count">>)]

PyReadsClouds ==
  [PointCloud2 |-> header \o Of("u32", <<"height", "width">>)
       \o ListOf("PointField", <<"fields">>) \o Of("bool", <<"is_bigendian">>)
       \o Of("u32", <<"point_step", "row_step">>) \o ListOf("u8", <<"data">>)
       \o Of("bool", <<"is_dense">>),
   Marker |-> header \o Of("string", <<"ns">>) \o Of("i32", <<"id", "type", "action">>)
       \o Of("Pose", <<"pose">>) \o Of("Vector3", <<"scale">>) \o Of("ColorRGBA", <<"color">>)
       \o Of("Duration", <<"lifetime">>) \o Of("bool", <<"frame_locked">>)
       \o ListOf("Point", <<"points">>) \o ListOf("ColorRGBA", <<"colors">>)
       \o Of("string", <<"text", "mesh_resource">>)
       \o Of("bool", <<"mesh_use_embedded_materials">>),
   MarkerArray |-> ListOf("Marker", <<"markers">>),
   MapMetaData |-> Of("Time", <<"map_load_time">>) \o Of("f32", <<"resolution">>)
       \o Of("u32", <<"width", "height">>) \o Of("Pose", <<"origin">>)]

PyReadsMaps ==
  [OccupancyGrid |-> header \o Of("MapMetaData", <<"info">>) \o ListOf("u8", <<"data">>),
   Octomap |-> header \o Of("bool", <<"binary">>) \o Of("string", <<"id">>)
       \o Of("f64", <<"resolution">>) \o ListOf("u8", <<"data">>),
   OctomapWithPose |-> header \o Of("Pose", <<"origin">>) \o Of("Octomap", <<"octomap">>),
   TFMessage |-> ListOf("TransformStamped", <<"transforms">>)]

PyReads == PyReadsGeometry @@ PyReadsSensor @@ PyReadsClouds @@ PyReadsMaps

\* The types a subscriber can name, and so a tool or a node can decode.
REGISTRY ==
  DOMAIN PyScalarReaders
    \cup {"PoseStamped", "TwistStamped", "TransformStamped", "Imu", "Image",
          "CompressedImage", "LaserScan", "PointCloud2", "Marker", "MarkerArray",
          "TFMessage", "OccupancyGrid", "MapMetaData", "Octomap", "OctomapWithPose"}

PyScalarWriters ==
  [String |-> "string", Bool |-> "bool",
   Int8 |-> "i8", Int16 |-> "i16", Int32 |-> "i32", Int64 |-> "i64",
   UInt8 |-> "u8", UInt16 |-> "u16", UInt32 |-> "u32", UInt64 |-> "u64",
   Float32 |-> "f32", Float64 |-> "f64"]

\* A writer's u32(len) followed by raw(data) is a list of u8.  The covariances of Imu
\* are written as long as the lists are, without a count: they are nine here, as in
\* the class's defaults and in what every reader takes.
PyWrites ==
  [Time |-> Of("i32", <<"sec">>) \o Of("u32", <<"nanosec">>),
   Header |-> Of("Time", <<"stamp">>) \o Of("string", <<"frame_id">>),
   Vector3 |-> Of("f64", <<"x", "y", "z">>),
   Quaternion |-> Of("f64", <<"x", "y", "z", "w">>),
   Pose |-> Of("Vector3", <<"position">>) \o Of("Quaternion", <<"orientation">>),
   PoseStamped |-> header \o Of("Pose", <<"pose">>),
   Twist |-> Of("Vector3", <<"linear", "angular">>),
   TwistStamped |-> header \o Of("Twist", <<"twist">>),
   CompressedImage |-> header \o Of("string", <<"format">>) \o ListOf("u8", <<"data">>),
   LaserScan |-> header
       \o Of("f32", <<"angle_min", "angle_max", "angle_increment", "time_increment",
                      "scan_time", "range_min", "range_max">>)
       \o ListOf("f32", <<"ranges", "intensities">>),
   PointField |-> Of("string", <<"name">>) \o Of("u32", <<"offset">>)
       \o Of("u8", <<"datatype">>) \o Of("u32", <<"count">>),
   PointCloud2 |-> header \o Of("u32", <<"height", "width">>)
       \o ListOf("PointField", <<"fields">>) \o Of("bool", <<"is_bigendian">>)
       \o Of("u32", <<"point_step", "row_step">>) \o ListOf("u8", <<"data">>)
       \o Of("bool", <<"is_dense">>),
   MapMetaData |-> Of("Time", <<"map_load_time">>) \o Of("f32", <<"resolution">>)
       \o Of("u32", <<"width", "height">>) \o Of("Pose", <<"origin">>),
   OccupancyGrid |-> header \o Of("MapMetaData", <<"info">>) \o ListOf("u8", <<"data">>),
   Octomap |-> header \o Of("bool", <<"binary">>) \o Of("string", <<"id">>)
       \o Of("f64", <<"resolution">>) \o ListOf("u8", <<"data">>),
   OctomapWithPose |-> header \o Of("Pose", <<"origin">>) \o Of("Octomap", <<"octomap">>),
   Image |-> header \o Of("u32", <<"height", "width">>) \o Of("string", <<"encoding">>)
       \o Of("u8", <<"is_bigendian">>) \o Of("u32", <<"step">>) \o ListOf("u8", <<"data">>),
   Imu |-> header \o Of("Quaternion", <<"orientation">>)
       \o ArrayOf(9, "f64", <<"orientation_covariance">>)
       \o Of("Vector3", <<"angular_velocity">>)
       \o ArrayOf(9, "f64", <<"angular_velocity_covariance">>)
       \o Of("Vector3", <<"linear_acceleration">>)
       \o ArrayOf(9, "f64", <<"linear_acceleration_covariance">>),
   Duration |-> Of("i32", <<"sec">>) \o Of("u32", <<"nanosec">>),
   Transform |-> Of("Vector3", <<"translation">>) \o Of("Quaternion", <<"rotation">>),
   TransformStamped |-> header \o Of("string", <<"child_frame_id">>)
       \o Of("Transform", <<"transform">>),
   TFMessage |-> ListOf("TransformStamped", <<"transforms">>),
   ColorRGBA |-> Of("f32", <<"r", "g", "b", "a">>),
   Point |-> Of("f64", <<"x", "y", "z">>),
   Marker |-> header \o Of("string", <<"ns">>) \o Of("i32", <<"id", "type", "action">>)
       \o Of("Pose", <<"pose">>) \o Of("Vector3", <<"scale">>) \o Of("ColorRGBA", <<"color">>)
       \o Of("Duration", <<"lifetime">>) \o Of("bool", <<"frame_locked">>)
       \o ListOf("Point", <<"points">>) \o ListOf("ColorRGBA", <<"colors">>)
       \o Of("string", <<"text", "mesh_resource">>)
       \o Of("bool", <<"mesh_use_embedded_materials">>),
   MarkerArray |-> ListOf("Marker", <<"markers">>)]
    @@ [t \in DOMAIN PyScalarWriters |-> Of(PyScalarWriters[t], <<"data">>)]

\* The types _write_any finds a writer for; the others raise TypeError.
PyPublishes ==
  DOMAIN PyScalarWriters
    \cup {"PoseStamped", "TwistStamped", "CompressedImage", "Image", "Imu", "LaserScan",
          "PointCloud2", "OccupancyGrid", "Octomap", "OctomapWithPose",
          "TransformStamped", "TFMessage", "Marker", "MarkerArray"}

-----------------------------------------------------------------------------
\* What a primitive is on the wire: signed, unsigned and floating-point words of
\* one width have the same bytes.
OnWire ==
  [bool |-> "bool", u8 |-> "w1", i8 |-> "w1", u16 |-> "w2", i16 |-> "w2",
   u32 |-> "w4", i32 |-> "w4", f32 |-> "w4", u64 |-> "w8", i64 |-> "w8", f64 |-> "w8",
   string |-> "text"]

\* A type's row with nested messages expanded in place: the primitives, each with
\* the member path it belongs to, and the lists, whose elements follow their count.
\* A list of primitives names the primitive, which is a layout of its own.
Layout(table) ==
  LET times(n, ops) == FlattenSeq([i \in 1..n |-> ops])
      flat[t \in DOMAIN table] ==
        FlattenSeq([i \in DOMAIN table[t] |->
          LET f == table[t][i]
              inner == flat[f.type]
          IN
          IF f.type \in DOMAIN OnWire
          THEN times(f.n, <<[tag |-> IF f.dyn THEN "seq" ELSE "put",
                             name |-> OnWire[f.type], path |-> <<f.name>>]>>)
          ELSE IF f.dyn THEN <<[tag |-> "seq", name |-> f.type, path |-> <<f.name>>]>>
          ELSE times(f.n, [k \in DOMAIN inner |->
                             [tag |-> inner[k].tag, name |-> inner[k].name,
                              path |-> <<f.name>> \o inner[k].path]])])
  IN [t \in DOMAIN table |-> flat[t]]
       @@ [w \in {OnWire[p] : p \in DOMAIN OnWire} |-> <<[tag |-> "put", name |-> w, path |-> <<>>]>>]

WriteLayouts == [cpp |-> Layout(Cpp), py |-> Layout(PyWrites)]
ReadLayouts == [cpp |-> Layout(Cpp), py |-> Layout(PyReads)]
Publishable == [cpp |-> DOMAIN Cpp, py |-> PyPublishes]
Subscribable == [cpp |-> DOMAIN Cpp, py |-> REGISTRY]
=============================================================================
